---- MODULE Spec2Model ----
(***************************************************************************)
(* A model of the PII tokenizer (backend/app/services/pii_service.py) and  *)
(* of the secretary agent loop (backend/app/services/secretary_service.py).*)
(*                                                                         *)
(* Text is a sequence of characters.  A character is a one-character       *)
(* string; a Cyrillic letter, which a TLA+ string cannot hold, is written  *)
(* as the string "cyr_x" and counts as one character.                      *)
(***************************************************************************)
EXTENDS Integers, Sequences, FiniteSets, TLC

(***************************************************************************)
(* Character classes of Python's re module, over the model's alphabet.     *)
(***************************************************************************)
Digit == {"0", "1", "2", "3", "4", "5", "6", "7", "8", "9"}

Upper == {"A", "B", "C", "D", "E", "F", "G", "H", "I", "J", "K", "L", "M",
          "N", "O", "P", "Q", "R", "S", "T", "U", "V", "W", "X", "Y", "Z"}

Lower == {"a", "b", "c", "d", "e", "f", "g", "h", "i", "j", "k", "l", "m",
          "n", "o", "p", "q", "r", "s", "t", "u", "v", "w", "x", "y", "z"}

\* The Cyrillic letters of the model's alphabet: the lower-case letters that
\* spell the street words of the ADDRESS_UA rule (v u l i ts ya p r o s e k
\* t b soft-sign a) and two capitals of the range [A-Ya].
CyrLower == {"cyr_v", "cyr_u", "cyr_l", "cyr_i", "cyr_ts", "cyr_ya", "cyr_p",
             "cyr_r", "cyr_o", "cyr_s", "cyr_e", "cyr_k", "cyr_t", "cyr_b",
             "cyr_soft", "cyr_a"}

CyrUpper == {"cyr_A", "cyr_B"}

\* \s
Space == {" "}

\* \w (Unicode aware: letters of every script, digits and the underscore)
WordChar == Upper \cup Lower \cup Digit \cup {"_"} \cup CyrLower \cup CyrUpper

(***************************************************************************)
(* Regular expressions as trees.  kind is one of                           *)
(*   "set"  one character in cs (neg: one character not in cs)             *)
(*   "wb"   \b                                                             *)
(*   "cat"  the elements of a in sequence                                  *)
(*   "alt"  the elements of a as ordered alternatives                      *)
(*   "rep"  a[1] repeated lo..hi times (inf: no upper limit), greedy       *)
(*          unless lazy                                                    *)
(*   "grp"  a[1] as capturing group 1                                      *)
(***************************************************************************)
Node(k, cs, neg, a, lo, hi, inf, lazy) ==
    [k |-> k, cs |-> cs, neg |-> neg, a |-> a, lo |-> lo, hi |-> hi,
     inf |-> inf, lazy |-> lazy]

In(cs) == Node("set", cs, FALSE, <<>>, 0, 0, FALSE, FALSE)

NotIn(cs) == Node("set", cs, TRUE, <<>>, 0, 0, FALSE, FALSE)

Ch(c) == In({c})

WB == Node("wb", {}, FALSE, <<>>, 0, 0, FALSE, FALSE)

Cat(a) == Node("cat", {}, FALSE, a, 0, 0, FALSE, FALSE)

Alt(a) == Node("alt", {}, FALSE, a, 0, 0, FALSE, FALSE)

Rep(r, lo, hi) == Node("rep", {}, FALSE, <<r>>, lo, hi, FALSE, FALSE)

Plus(r) == Node("rep", {}, FALSE, <<r>>, 1, 0, TRUE, FALSE)

Star(r) == Node("rep", {}, FALSE, <<r>>, 0, 0, TRUE, FALSE)

AtLeast(r, lo) == Node("rep", {}, FALSE, <<r>>, lo, 0, TRUE, FALSE)

LazyStar(r) == Node("rep", {}, FALSE, <<r>>, 0, 0, TRUE, TRUE)

Opt(r) == Rep(r, 0, 1)

Grp(r) == Node("grp", {}, FALSE, <<r>>, 0, 0, FALSE, FALSE)

\* A literal string: its characters in sequence.
Lit(s) == Cat([i \in 1..Len(s) |-> Ch(s[i])])

\* A literal string under (?i): each letter in either case.
LowerSeq == <<"a","b","c","d","e","f","g","h","i","j","k","l","m",
              "n","o","p","q","r","s","t","u","v","w","x","y","z">>

UpperSeq == <<"A","B","C","D","E","F","G","H","I","J","K","L","M",
              "N","O","P","Q","R","S","T","U","V","W","X","Y","Z">>

OtherCase(c) ==
    {c} \cup {LowerSeq[i] : i \in {j \in 1..26 : UpperSeq[j] = c}}
        \cup {UpperSeq[i] : i \in {j \in 1..26 : LowerSeq[j] = c}}

LitI(s) == Cat([i \in 1..Len(s) |-> In(OtherCase(s[i]))])

(***************************************************************************)
(* The backtracking matcher of re.  A match state is the position after    *)
(* the characters consumed so far (e) and the span of group 1 (gs, ge;     *)
(* 0 when the group has not taken part).  M gives the match states of r    *)
(* from st in the order in which backtracking tries them: the first one    *)
(* is the match re reports.                                                *)
(***************************************************************************)
IsWordAt(s, p) == p >= 1 /\ p <= Len(s) /\ s[p] \in WordChar

RECURSIVE M(_, _, _), MEach(_, _, _, _, _), MCat(_, _, _, _), MAlt(_, _, _, _)
RECURSIVE MRep(_, _, _, _), MRepEach(_, _, _, _, _, _)

\* r from each of the states sts[lo..hi], in order
MEach(r, s, sts, lo, hi) ==
    IF lo > hi THEN <<>>
    ELSE IF lo = hi THEN M(r, s, sts[lo])
    ELSE LET mid == (lo + hi) \div 2
         IN MEach(r, s, sts, lo, mid) \o MEach(r, s, sts, mid + 1, hi)

MCat(a, j, s, sts) ==
    IF j > Len(a) \/ sts = <<>> THEN sts
    ELSE MCat(a, j + 1, s, MEach(a[j], s, sts, 1, Len(sts)))

MAlt(a, j, s, st) ==
    IF j > Len(a) THEN <<>>
    ELSE M(a[j], s, st) \o MAlt(a, j + 1, s, st)

\* r.a[1] has matched n times, from each of the states sts[lo..hi] in order
MRepEach(r, s, sts, lo, hi, n) ==
    IF lo > hi THEN <<>>
    ELSE IF lo = hi THEN MRep(r, s, sts[lo], n)
    ELSE LET mid == (lo + hi) \div 2
         IN MRepEach(r, s, sts, lo, mid, n) \o MRepEach(r, s, sts, mid + 1, hi, n)

\* r.a[1] has matched n times and the state is st, and once holds the
\* states after one more match: those that consumed something are
\* continued (more); stopping here is tried after them, or before them when
\* the repetition is lazy.
MRepJoin(r, st, n, more) ==
    IF n >= r.lo
    THEN (IF r.lazy THEN <<st>> \o more ELSE more \o <<st>>)
    ELSE more

MRepMore(r, s, next, n) == MRepEach(r, s, next, 1, Len(next), n)

MRepOnce(r, s, st, n, once) ==
    MRepJoin(r, st, n,
             MRepMore(r, s, SelectSeq(once, LAMBDA x : x.e > st.e), n + 1))

MRep(r, s, st, n) ==
    MRepOnce(r, s, st, n,
             IF r.inf \/ n < r.hi THEN M(r.a[1], s, st) ELSE <<>>)

\* The repetition of a single character class, without recursion: the run
\* of characters of the class from st.e on is run long, and the repetition
\* may stop after lo..most of them, the longest first unless lazy.
MRepSet(r, s, st) ==
    LET c == r.a[1]
        ok(q) == q <= Len(s) /\ ((s[q] \in c.cs) # c.neg)
        cap == IF r.inf THEN Len(s) - st.e + 1 ELSE r.hi
        most == CHOOSE n \in 0..cap :
                  /\ \A i \in 0..(n - 1) : ok(st.e + i)
                  /\ n = cap \/ ~ok(st.e + n)
        cnt == most - r.lo + 1
    IN IF cnt <= 0 THEN <<>>
       ELSE [i \in 1..cnt |->
               [st EXCEPT !.e = IF r.lazy THEN st.e + r.lo + (i - 1)
                                ELSE st.e + most - (i - 1)]]

\* group 1 spans from p to the end of each of the states ms
Captured(ms, p) ==
    [i \in 1..Len(ms) |-> [ms[i] EXCEPT !.gs = p, !.ge = ms[i].e]]

M(r, s, st) ==
    CASE r.k = "set" ->
           IF st.e <= Len(s) /\ ((s[st.e] \in r.cs) # r.neg)
           THEN <<[st EXCEPT !.e = @ + 1]>> ELSE <<>>
      [] r.k = "wb" ->
           IF IsWordAt(s, st.e - 1) # IsWordAt(s, st.e) THEN <<st>> ELSE <<>>
      [] r.k = "cat" -> MCat(r.a, 1, s, <<st>>)
      [] r.k = "alt" -> MAlt(r.a, 1, s, st)
      [] r.k = "rep" ->
           IF r.a[1].k = "set" THEN MRepSet(r, s, st) ELSE MRep(r, s, st, 0)
      [] r.k = "grp" -> Captured(M(r.a[1], s, st), st.e)

\* the first of the match states ms, as a sequence of at most one element
First(ms) == IF ms = <<>> THEN <<>> ELSE <<Head(ms)>>

\* re's match of r at position p of s: <<>> or the one-element sequence
\* holding the match state.
MatchAt(r, s, p) == First(M(r, s, [e |-> p, gs |-> 0, ge |-> 0]))

\* the match m is one, and not of the empty string at p
NonEmpty(m, p) == m # <<>> /\ m[1].e > p

\* the leftmost of the positions starts with its match: <<>>, or the
\* one-element sequence holding [q |-> the position, m |-> the match state]
Leftmost(r, s, starts) ==
    IF starts = {} THEN <<>>
    ELSE LET q == CHOOSE x \in starts : \A y \in starts : x <= y
         IN <<[q |-> q, m |-> MatchAt(r, s, q)[1]]>>

\* re's search for r in s from position p on
Search(r, s, p) ==
    Leftmost(r, s, {q \in p..Len(s) : NonEmpty(MatchAt(r, s, q), q)})

(***************************************************************************)
(* PIIService.PATTERNS: (Name, Pattern, GroupIndex), in registration order. *)
(***************************************************************************)
Alnum == Upper \cup Lower \cup Digit

UpperDigit == Upper \cup Digit

\* [A-Za-z0-9-_]
JwtChar == Alnum \cup {"-", "_"}

\* [-.\s]?
PhoneSep == Opt(In({"-", "."} \cup Space))

PatJWT ==
    Cat(<<Lit(<<"e", "y", "J">>), Plus(In(JwtChar)), Ch("."),
          Lit(<<"e", "y", "J">>), Plus(In(JwtChar)), Ch("."),
          Plus(In(JwtChar))>>)

PatOPENAI_KEY == Cat(<<Lit(<<"s", "k", "-">>), AtLeast(In(Alnum), 32)>>)

PatAWS_KEY ==
    Cat(<<Alt(<<Lit(<<"A", "K", "I", "A">>), Lit(<<"A", "S", "I", "A">>)>>),
          Rep(In(UpperDigit), 16, 16)>>)

PatIBAN ==
    Cat(<<WB, Rep(In(Upper), 2, 2), Rep(In(Digit), 2, 2),
          Rep(In(UpperDigit), 1, 30), WB>>)

PatSWIFT ==
    Cat(<<WB, Rep(In(Upper), 6, 6), Rep(In(UpperDigit), 2, 2),
          Opt(Rep(In(UpperDigit), 3, 3)), WB>>)

PatCARD ==
    Cat(<<WB, Rep(Cat(<<In(Digit), LazyStar(In({" ", "-"}))>>), 13, 19), WB>>)

PatPASSPORT_UA_OLD == Cat(<<WB, Rep(In(Upper), 2, 2), Rep(In(Digit), 6, 6), WB>>)

PatRNOKPP == Cat(<<WB, Rep(In(Digit), 10, 10), WB>>)

PatPASSPORT_ID == Cat(<<WB, Rep(In(Digit), 9, 9), WB>>)

PatEDRPOU == Cat(<<WB, Rep(In(Digit), 8, 8), WB>>)

\* (?i): [A-Z] stands for both cases
PatEMAIL ==
    Cat(<<WB, Plus(In(Alnum \cup {".", "_", "%", "+", "-"})), Ch("@"),
          Plus(In(Alnum \cup {".", "-"})), Ch("."),
          AtLeast(In(Upper \cup Lower), 2), WB>>)

PatPHONE ==
    Cat(<<WB,
          Opt(Cat(<<Opt(Ch("+")), Rep(In(Digit), 1, 3), PhoneSep>>)),
          Opt(Ch("(")), Rep(In(Digit), 3, 3), Opt(Ch(")")), PhoneSep,
          Rep(In(Digit), 3, 3), PhoneSep, Rep(In(Digit), 4, 4), WB>>)

\* (\.\d+)?
Fraction == Opt(Cat(<<Ch("."), Plus(In(Digit))>>))

\* (\.0+)?
ZeroFraction == Opt(Cat(<<Ch("."), Plus(Ch("0"))>>))

PatCOORDS ==
    Cat(<<Opt(In({"-", "+"})),
          Alt(<<Cat(<<Opt(In({"1", "2", "3", "4", "5", "6", "7", "8"})),
                      In(Digit), Fraction>>),
                Cat(<<Lit(<<"9", "0">>), ZeroFraction>>)>>),
          Ch(","), Star(In(Space)), Opt(In({"-", "+"})),
          Alt(<<Cat(<<Lit(<<"1", "8", "0">>), ZeroFraction>>),
                Cat(<<Alt(<<Cat(<<Ch("1"),
                                  In({"0", "1", "2", "3", "4", "5", "6", "7"}),
                                  In(Digit)>>),
                            Cat(<<Opt(In(Digit \ {"0"})), In(Digit)>>)>>),
                      Fraction>>)>>)>>)

\* (?i); group 1 is the value after the label
PatCREDENTIAL ==
    Cat(<<Alt(<<LitI(<<"p", "a", "s", "s", "w", "o", "r", "d">>),
                LitI(<<"p", "a", "s", "s", "w", "d">>),
                LitI(<<"p", "w", "d">>),
                LitI(<<"s", "e", "c", "r", "e", "t">>),
                LitI(<<"t", "o", "k", "e", "n">>),
                Cat(<<LitI(<<"a", "p", "i">>), Opt(In({"_", "-"})),
                      LitI(<<"k", "e", "y">>)>>),
                LitI(<<"l", "o", "g", "i", "n">>)>>),
          Star(In(Space)), In({":", "="}), Star(In(Space)),
          Grp(Plus(NotIn(Space)))>>)

PatADDRESS ==
    Cat(<<WB, Plus(In(Digit)), Plus(In(Space)), Plus(In(Upper \cup Lower)),
          Plus(In(Space)),
          Alt(<<Lit(<<"S", "t">>), Lit(<<"S", "t", "r", "e", "e", "t">>),
                Lit(<<"A", "v", "e">>), Lit(<<"A", "v", "e", "n", "u", "e">>),
                Lit(<<"R", "o", "a", "d">>), Lit(<<"R", "d">>),
                Lit(<<"B", "l", "v", "d">>), Lit(<<"L", "a", "n", "e">>),
                Lit(<<"L", "n">>)>>),
          WB>>)

\* [A-Ya a-ya I i Yi yi Ye ye 0-9 \- \s]; Yi and Ye are outside the
\* model's alphabet
PatADDRESS_UA ==
    Cat(<<WB,
          Alt(<<Lit(<<"cyr_v", "cyr_u", "cyr_l", ".">>),
                Lit(<<"cyr_v", "cyr_u", "cyr_l", "cyr_i", "cyr_ts", "cyr_ya">>),
                Lit(<<"cyr_p", "cyr_r", "cyr_o", "cyr_s", "cyr_p", ".">>),
                Lit(<<"cyr_p", "cyr_r", "cyr_o", "cyr_s", "cyr_p", "cyr_e",
                      "cyr_k", "cyr_t">>),
                Lit(<<"cyr_b", "cyr_u", "cyr_l", ".">>),
                Lit(<<"cyr_b", "cyr_u", "cyr_l", "cyr_soft", "cyr_v", "cyr_a",
                      "cyr_r">>),
                Lit(<<"cyr_p", "cyr_r", "cyr_o", "cyr_v", ".">>),
                Lit(<<"cyr_p", "cyr_r", "cyr_o", "cyr_v", "cyr_u", "cyr_l",
                      "cyr_o", "cyr_k">>)>>),
          Plus(In(Space)),
          Plus(In(CyrUpper \cup CyrLower \cup {"I", "i", "-"} \cup Digit
                  \cup Space)),
          WB>>)

Rule(name, pat, group) == [name |-> name, pat |-> pat, group |-> group]

PATTERNS ==
    << Rule(<<"J", "W", "T">>, PatJWT, 0),
       Rule(<<"O", "P", "E", "N", "A", "I", "_", "K", "E", "Y">>, PatOPENAI_KEY, 0),
       Rule(<<"A", "W", "S", "_", "K", "E", "Y">>, PatAWS_KEY, 0),
       Rule(<<"I", "B", "A", "N">>, PatIBAN, 0),
       Rule(<<"S", "W", "I", "F", "T">>, PatSWIFT, 0),
       Rule(<<"C", "A", "R", "D">>, PatCARD, 0),
       Rule(<<"P", "A", "S", "S", "P", "O", "R", "T", "_", "U", "A", "_",
              "O", "L", "D">>, PatPASSPORT_UA_OLD, 0),
       Rule(<<"R", "N", "O", "K", "P", "P">>, PatRNOKPP, 0),
       Rule(<<"P", "A", "S", "S", "P", "O", "R", "T", "_", "I", "D">>,
            PatPASSPORT_ID, 0),
       Rule(<<"E", "D", "R", "P", "O", "U">>, PatEDRPOU, 0),
       Rule(<<"E", "M", "A", "I", "L">>, PatEMAIL, 0),
       Rule(<<"P", "H", "O", "N", "E">>, PatPHONE, 0),
       Rule(<<"C", "O", "O", "R", "D", "S">>, PatCOORDS, 0),
       Rule(<<"C", "R", "E", "D", "E", "N", "T", "I", "A", "L">>,
            PatCREDENTIAL, 1),
       Rule(<<"A", "D", "D", "R", "E", "S", "S">>, PatADDRESS, 0),
       Rule(<<"A", "D", "D", "R", "E", "S", "S", "_", "U", "A">>,
            PatADDRESS_UA, 0) >>

(***************************************************************************)
(* The mapping is a Python dict: a sequence of entries [k, v] in insertion *)
(* order, with no key twice.                                               *)
(***************************************************************************)
StartsWith(k, pre) == Len(k) >= Len(pre) /\ SubSeq(k, 1, Len(pre)) = pre

EndsWith(k, suf) ==
    Len(k) >= Len(suf) /\ SubSeq(k, Len(k) - Len(suf) + 1, Len(k)) = suf

HasKey(mapping, k) == \E i \in 1..Len(mapping) : mapping[i].k = k

\* mapping[k] = v
Put(mapping, k, v) ==
    IF HasKey(mapping, k)
    THEN [i \in 1..Len(mapping) |->
            IF mapping[i].k = k THEN [k |-> k, v |-> v] ELSE mapping[i]]
    ELSE Append(mapping, [k |-> k, v |-> v])

DigitSeq == <<"0", "1", "2", "3", "4", "5", "6", "7", "8", "9">>

\* str(n) for n >= 0
RECURSIVE Str(_)
Str(n) ==
    IF n < 10 THEN <<DigitSeq[n + 1]>>
    ELSE Str(n \div 10) \o <<DigitSeq[(n % 10) + 1]>>

\* f"{{{{{type_prefix}"
TokenPrefix(type_prefix) == <<"{", "{">> \o type_prefix

\* f"{{{{{type_prefix}_{count}}}}}"
Token(type_prefix, count) ==
    TokenPrefix(type_prefix) \o <<"_">> \o Str(count) \o <<"}", "}">>

\* (mutant) the dedup check finds nothing
NoExistingToken(mapping, original, type_prefix) == <<>>

\* next((k for k, v in mapping.items()
\*       if v == original and k.startswith(f"{{{{{type_prefix}")), None):
\* <<>> for None
ExistingToken(mapping, original, type_prefix) ==
    LET hits == {i \in 1..Len(mapping) :
                   /\ mapping[i].v = original
                   /\ StartsWith(mapping[i].k, TokenPrefix(type_prefix))}
    IN IF hits = {} THEN <<>>
       ELSE mapping[CHOOSE i \in hits : \A j \in hits : i <= j].k

\* (mutant) the count without the + 1
NextCountFromZero(mapping, type_prefix) ==
    Cardinality({i \in 1..Len(mapping) :
                   StartsWith(mapping[i].k, TokenPrefix(type_prefix))})

\* (mutant) the tokens already allocated are not counted
NextCountOne(mapping, type_prefix) == 1

\* len([k for k in mapping.keys() if k.startswith(f"{{{{{type_prefix}")]) + 1
NextCount(mapping, type_prefix) ==
    Cardinality({i \in 1..Len(mapping) :
                   StartsWith(mapping[i].k, TokenPrefix(type_prefix))}) + 1

\* The dedup check and the allocation that both branches of replace_match
\* share: the token that stands for original, and the mapping after.
TokenFor(mapping, original, type_prefix) ==
    LET existing_token == ExistingToken(mapping, original, type_prefix)
        token == Token(type_prefix, NextCount(mapping, type_prefix))
    IN IF existing_token # <<>>
       THEN [token |-> existing_token, mapping |-> mapping]
       ELSE [token |-> token, mapping |-> Put(mapping, token, original)]

\* what replace_match returns once it has the token t for original: the
\* replacement text (rep) and the mapping after, with the original and the
\* token of the call
Replaced(prefix, suffix, original, t) ==
    [rep |-> prefix \o t.token \o suffix, mapping |-> t.mapping,
     original |-> original, token |-> t.token]

\* replace_match for the match m of s that starts at p; original and token
\* are <<>> when it returns the match as it is.
replace_match(s, p, m, type_prefix, group_index, mapping) ==
    LET full_match == SubSeq(s, p, m.e - 1)
    IN IF group_index > 0
       THEN LET original == IF m.gs = 0 THEN <<>> ELSE SubSeq(s, m.gs, m.ge - 1)
                prefix == SubSeq(s, p, m.gs - 1)
                suffix == SubSeq(s, m.ge, m.e - 1)
            IN IF original = <<>>
               THEN [rep |-> full_match, mapping |-> mapping,
                     original |-> <<>>, token |-> <<>>]
               ELSE Replaced(prefix, suffix, original,
                             TokenFor(mapping, original, type_prefix))
       ELSE Replaced(<<>>, <<>>, full_match,
                     TokenFor(mapping, full_match, type_prefix))

\* re.sub(rule.pat, replace_match, s), from position p on, with out the text
\* produced so far: the text and the mapping after.  re.sub replaces the
\* leftmost match, then the leftmost match after its end, and so on.
\* log records the replace_match calls in the order they are made: the
\* rule, the original value and the token that replaced it.
RECURSIVE Sub(_, _, _, _, _, _)
\* the match found at found.q has been replaced as r says
SubReplaced(rule, s, p, found, out, log, r) ==
    Sub(rule, s, found.m.e, r.mapping,
        out \o SubSeq(s, p, found.q - 1) \o r.rep,
        IF r.token = <<>> THEN log
        ELSE Append(log, [type |-> rule.name, original |-> r.original,
                          token |-> r.token]))

\* found is what the search from p on gave
SubFound(rule, s, p, mapping, out, log, found) ==
    IF found = <<>>
    THEN [text |-> out \o SubSeq(s, p, Len(s)), mapping |-> mapping,
          log |-> log]
    ELSE SubReplaced(rule, s, p, found[1], out, log,
                     replace_match(s, found[1].q, found[1].m, rule.name,
                                   rule.group, mapping))

Sub(rule, s, p, mapping, out, log) ==
    SubFound(rule, s, p, mapping, out, log, Search(rule.pat, s, p))

\* the loop of mask over PATTERNS, from rule i on
RECURSIVE MaskFrom(_, _, _, _)
\* rule i has given r (the test has TLC evaluate r before the next rule
\* starts)
MaskNext(i, r) ==
    IF Len(r.text) + Len(r.mapping) >= 0
    THEN MaskFrom(i + 1, r.text, r.mapping, r.log)
    ELSE r

MaskFrom(i, masked_text, mapping, log) ==
    IF i > Len(PATTERNS)
    THEN [text |-> masked_text, mapping |-> mapping, log |-> log]
    ELSE MaskNext(i, Sub(PATTERNS[i], masked_text, 1, mapping, <<>>, log))

\* PIIService.mask(text, mapping): the masked text and the mapping it
\* returns, with the log of its replace_match calls.  None is <<>>.
mask(t, mapping) == MaskFrom(1, t, mapping, <<>>)

(***************************************************************************)
(* PIIService.unmask                                                       *)
(***************************************************************************)
\* the entries for token and, when the token is braced, for its bare form
Extended(mapping) ==
    LET RECURSIVE Ext(_)
        Ext(i) ==
          IF i > Len(mapping) THEN <<>>
          ELSE LET token == mapping[i].k
                   original == mapping[i].v
                   braced == /\ StartsWith(token, <<"{", "{">>)
                             /\ EndsWith(token, <<"}", "}">>)
               IN <<[k |-> token, v |-> original]>>
                  \o (IF braced
                      THEN <<[k |-> SubSeq(token, 3, Len(token) - 2),
                              v |-> original]>>
                      ELSE <<>>)
                  \o Ext(i + 1)
    IN Ext(1)

\* list.sort(key=lambda x: len(x[0]), reverse=True): stable, longest key first
RECURSIVE SortByKeyLen(_)
SortByKeyLen(xs) ==
    IF xs = <<>> THEN <<>>
    ELSE LET rest == SortByKeyLen(Tail(xs))
             x == Head(xs)
             \* x goes before the first element of rest that is not longer
             n == Cardinality({i \in 1..Len(rest) :
                                 Len(rest[i].k) > Len(x.k)})
         IN SubSeq(rest, 1, n) \o <<x>> \o SubSeq(rest, n + 1, Len(rest))

\* key in s, at position p
OccursAt(s, key, p) ==
    p + Len(key) - 1 <= Len(s) /\ SubSeq(s, p, p + Len(key) - 1) = key

Contains(s, key) == \E p \in 1..Len(s) : OccursAt(s, key, p)

\* str.replace(key, original) from position p on: every occurrence, left to
\* right, not overlapping
RECURSIVE Replace(_, _, _, _)
Replace(s, key, original, p) ==
    LET at == {q \in p..Len(s) : OccursAt(s, key, q)}
    IN IF key = <<>> \/ at = {} THEN SubSeq(s, p, Len(s))
       ELSE LET q == CHOOSE x \in at : \A y \in at : x <= y
            IN SubSeq(s, p, q - 1) \o original
               \o Replace(s, key, original, q + Len(key))

RECURSIVE ReplaceAll(_, _, _)
ReplaceAll(unmasked_text, extended_mapping, i) ==
    IF i > Len(extended_mapping) THEN unmasked_text
    ELSE LET key == extended_mapping[i].k
             original == extended_mapping[i].v
         IN ReplaceAll(IF Contains(unmasked_text, key)
                       THEN Replace(unmasked_text, key, original, 1)
                       ELSE unmasked_text,
                       extended_mapping, i + 1)

\* PIIService.unmask(text, mapping)
unmask(t, mapping) == ReplaceAll(t, SortByKeyLen(Extended(mapping)), 1)

(***************************************************************************)
(* A mapping scope: successive mask calls that pass one mapping, as in     *)
(* verify_pii_secretary.py (mask, unmask, mask with mapping=mapping).      *)
(***************************************************************************)
VARIABLES
    scope_mapping,   \* the mapping the calls of the scope share
    scope_prev,      \* the mapping as it was before the last mask call
    scope_log,       \* the replace_match calls of the scope so far
    scope_calls,     \* the number of mask calls so far
    scope_frags,     \* the number of fragments masked so far
    last_text,       \* the text of the last mask call
    last_masked,     \* the masked text it returned
    last_unmasked,   \* the text the last unmask call returned
    last_bare,       \* the bare token the last unmask call was given, if any
    op               \* the last call: "none", "mask", "unmask", "unmask_bare"

scopevars == <<scope_mapping, scope_prev, scope_log, scope_calls,
               scope_frags, last_text, last_masked, last_unmasked,
               last_bare, op>>

\* A run of SecretaryService.process_request
VARIABLES
    pc,              \* "idle", "loop", "generate", "gather", "done", "raised"
    query,           \* the query of the call
    history,         \* the history of the call
    messages,        \* the message list
    turn,            \* the iterations of the agent loop that have ended
    tasks,           \* the execute_tool coroutines of the turn
    result,          \* the text the call returned
    sent,            \* the message list of the last provider.generate call
    generate_calls,  \* the number of provider.generate calls
    invocations      \* the calls the tool layer received

runvars == <<pc, query, history, messages, turn, tasks, result, sent,
             generate_calls, invocations>>

\* The runs of one ChatPipeline object
VARIABLES
    pm_dicts,        \* the dict objects made for self.pii_middleware.mapping
    pm_ref,          \* the one self.pii_middleware.mapping refers to
    transcript,      \* the messages of the chat in the database
    prun             \* the state of each run

pipevars == <<pm_dicts, pm_ref, transcript, prun>>

\* One run of calls of OpenAIProvider, and the lookups of the registry
VARIABLES
    gen,             \* the generate or stream_generate call in progress
    requests,        \* the requests sent to the client, in order, each
                     \* with the messages of its call and the tool
                     \* messages made since the request before it
    outcomes,        \* what the client returned or raised for them
    lookup           \* the last get_capabilities call and its result

provvars == <<gen, requests, outcomes, lookup>>

\* the request of the chat service or of the streaming pipeline
VARIABLES
    creq,            \* the request: its function, position, context, masked
                     \* messages, mapping, and the stream it reads
    events,          \* the events the generator has yielded
    closes,          \* the stream.aclose() calls
    saved            \* the assistant messages the request has persisted

chatvars == <<creq, events, closes, saved>>

\* the variables of the other components
extvars == <<pipevars, provvars, chatvars>>

vars == <<scopevars, runvars, extvars>>

\* The texts are made of these fragments.  Each ends with a space, but the
\* credential label, whose value is the fragment that follows it.
EmailA == <<"a", "@", "b", ".", "c", "o", " ">>

EmailB == <<"c", "@", "d", ".", "c", "o", " ">>

\* an address whose local part reads like a bare token
EmailT == <<"E", "M", "A", "I", "L", "_", "1", "@", "b", ".", "c", "o", " ">>

Label == <<"p", "w", "d", ":", " ">>

Street == <<"1", " ", "A", " ", "S", "t", " ">>

StreetUA == <<"cyr_v", "cyr_u", "cyr_l", ".", " ", "cyr_A", " ">>

Word == <<"x", " ">>

Frags == {EmailA, EmailB, EmailT, Label, Street, StreetUA, Word}

\* the most fragments one scope masks
MaxFrags == 3

RECURSIVE Concat(_)
Concat(fs) == IF fs = <<>> THEN <<>> ELSE Head(fs) \o Concat(Tail(fs))

\* the texts of 1..n fragments
Texts(n) == {Concat(fs) : fs \in UNION {[1..k -> Frags] : k \in 1..n}}

\* the number of fragments of a text
RECURSIVE FragCount(_)
FragCount(t) ==
    IF t = <<>> THEN 0
    ELSE LET f == CHOOSE g \in Frags : StartsWith(t, g)
         IN 1 + FragCount(SubSeq(t, Len(f) + 1, Len(t)))

InitScope ==
    /\ scope_mapping = <<>>
    /\ scope_prev = <<>>
    /\ scope_log = <<>>
    /\ scope_calls = 0
    /\ scope_frags = 0
    /\ last_text = <<>>
    /\ last_masked = <<>>
    /\ last_unmasked = <<>>
    /\ last_bare = <<>>
    /\ op = "none"

\* masked, mapping = pii.mask(t, mapping=mapping), where the call gave r
MaskReturns(t, r) ==
    /\ scope_mapping' = r.mapping
    /\ scope_log' = scope_log \o r.log
    /\ last_masked' = r.text
    /\ scope_prev' = scope_mapping
    /\ scope_calls' = scope_calls + 1
    /\ scope_frags' = scope_frags + FragCount(t)
    /\ last_text' = t
    /\ last_unmasked' = <<>>
    /\ last_bare' = <<>>
    /\ op' = "mask"
    /\ UNCHANGED <<runvars, extvars>>

MaskCall(t) ==
    /\ op \in {"none", "mask"}
    /\ MaskReturns(t, mask(t, scope_mapping))

\* unmasked = pii.unmask(masked, mapping)
UnmaskCall ==
    /\ op = "mask"
    /\ last_unmasked' = unmask(last_masked, scope_mapping)
    /\ op' = "unmask"
    /\ UNCHANGED <<scope_mapping, scope_prev, scope_log, scope_calls,
                   scope_frags, last_text, last_masked, last_bare>>
    /\ UNCHANGED <<runvars, extvars>>

\* token[2:-2]
BareToken(token) == SubSeq(token, 3, Len(token) - 2)

\* pii.unmask(text3, mapping), where text3 is token n of the mapping with
\* its braces stripped
UnmaskBare(n) ==
    /\ op = "mask"
    /\ last_bare' = BareToken(scope_mapping[n].k)
    /\ last_unmasked' = unmask(BareToken(scope_mapping[n].k), scope_mapping)
    /\ op' = "unmask_bare"
    /\ UNCHANGED <<scope_mapping, scope_prev, scope_log, scope_calls,
                   scope_frags, last_text, last_masked>>
    /\ UNCHANGED <<runvars, extvars>>

(***************************************************************************)
(* SecretaryService.process_request                                        *)
(***************************************************************************)
\* the first line of system_prompt (the rest, with the current time, is
\* left out)
system_prompt ==
    <<"Y", "o", "u", " ", "a", "r", "e", " ", "a", " ", "h", "e", "l", "p",
      "f", "u", "l", " ", "m", "a", "i", "l", " ", "a", "n", "d", " ", "c",
      "a", "l", "e", "n", "d", "a", "r", " ", "s", "e", "c", "r", "e", "t",
      "a", "r", "y", " ", "a", "g", "e", "n", "t", ".">>

ImDone ==
    <<"I", "'", "m", " ", "d", "o", "n", "e", ".">>

MaxStepsMessage ==
    <<"I", " ", "r", "e", "a", "c", "h", "e", "d", " ", "t", "h", "e", " ",
      "m", "a", "x", "i", "m", "u", "m", " ", "n", "u", "m", "b", "e", "r",
      " ", "o", "f", " ", "s", "t", "e", "p", "s", " ", "a", "n", "d", " ",
      "c", "o", "u", "l", "d", "n", "'", "t", " ", "f", "i", "n", "i", "s",
      "h", " ", "t", "h", "e", " ", "t", "a", "s", "k", ".">>

UnknownToolPrefix ==
    <<"E", "r", "r", "o", "r", ":", " ", "U", "n", "k", "n", "o", "w", "n",
      " ", "t", "o", "o", "l", " ">>

ErrorExecutingPrefix ==
    <<"E", "r", "r", "o", "r", " ", "e", "x", "e", "c", "u", "t", "i", "n",
      "g", " ">>

DefaultLabel ==
    <<"w", "o", "r", "k">>

Untitled ==
    <<"U", "n", "t", "i", "t", "l", "e", "d">>

\* the names of the tools, as the texts they are
ToolName ==
    [
      list_emails |->
        <<"l", "i", "s", "t", "_", "e", "m", "a", "i", "l", "s">>,
      list_events |->
        <<"l", "i", "s", "t", "_", "e", "v", "e", "n", "t", "s">>,
      find_free_slots |->
        <<"f", "i", "n", "d", "_", "f", "r", "e", "e", "_", "s", "l", "o",
          "t", "s">>,
      create_event |->
        <<"c", "r", "e", "a", "t", "e", "_", "e", "v", "e", "n", "t">>,
      reply_email |->
        <<"r", "e", "p", "l", "y", "_", "e", "m", "a", "i", "l">>,
      forward_email |->
        <<"f", "o", "r", "w", "a", "r", "d", "_", "e", "m", "a", "i", "l">>,
      delete_emails |->
        <<"d", "e", "l", "e", "t", "e", "_", "e", "m", "a", "i", "l", "s">>,
      get_event |->
        <<"g", "e", "t", "_", "e", "v", "e", "n", "t">>,
      update_event |->
        <<"u", "p", "d", "a", "t", "e", "_", "e", "v", "e", "n", "t">>,
      delete_event |->
        <<"d", "e", "l", "e", "t", "e", "_", "e", "v", "e", "n", "t">>,
      respond_to_invitation |->
        <<"r", "e", "s", "p", "o", "n", "d", "_", "t", "o", "_", "i", "n",
          "v", "i", "t", "a", "t", "i", "o", "n">>,
      mark_email_as_read |->
        <<"m", "a", "r", "k", "_", "e", "m", "a", "i", "l", "_", "a", "s",
          "_", "r", "e", "a", "d">>,
      mark_email_as_unread |->
        <<"m", "a", "r", "k", "_", "e", "m", "a", "i", "l", "_", "a", "s",
          "_", "u", "n", "r", "e", "a", "d">>,
      star_email |->
        <<"s", "t", "a", "r", "_", "e", "m", "a", "i", "l">>,
      get_email |->
        <<"g", "e", "t", "_", "e", "m", "a", "i", "l">>
    ]

TypeEMAIL == <<"E", "M", "A", "I", "L">>

\* JSON values: strings, objects (key/value pairs in order), arrays,
\* booleans and null (None)
JStr(s) == [t |-> "str", s |-> s]

JObj(o) == [t |-> "obj", o |-> o]

JArr(a) == [t |-> "arr", a |-> a]

JBool(b) == [t |-> "bool", b |-> b]

None == [t |-> "null"]

\* args.get(key, default)
Get(args, key, default) ==
    IF HasKey(args.o, key)
    THEN LET i == CHOOSE n \in 1..Len(args.o) : args.o[n].k = key
         IN args.o[i].v
    ELSE default

\* x or default, for an array x
OrEmpty(x) == IF x = None \/ x = JArr(<<>>) THEN JArr(<<>>) ELSE x

\* {k: v for k, v in args.items() if k not in ["account_label", "event_id"]}
Kwargs(args) ==
    JObj(SelectSeq(args.o, LAMBDA e : e.k \notin {"account_label", "event_id"}))

\* the tools the elif chain of execute_tool dispatches, in its order
Dispatched ==
    <<ToolName.list_emails, ToolName.list_events, ToolName.find_free_slots,
      ToolName.create_event, ToolName.reply_email, ToolName.forward_email,
      ToolName.delete_emails, ToolName.get_event, ToolName.update_event,
      ToolName.delete_event, ToolName.respond_to_invitation,
      ToolName.mark_email_as_read, ToolName.mark_email_as_unread,
      ToolName.star_email>>

IsDispatched(fname) == \E i \in 1..Len(Dispatched) : Dispatched[i] = fname

\* the arguments execute_tool passes to self.tools_impl.<fname>
ToolArgs(fname, args) ==
    LET label == Get(args, "account_label", JStr(DefaultLabel))
        A(key) == Get(args, key, None)
    IN CASE fname = ToolName.list_emails ->
              <<label, Get(args, "filters", JObj(<<>>))>>
         [] fname = ToolName.list_events ->
              <<label, A("start_time"), A("end_time")>>
         [] fname = ToolName.find_free_slots ->
              <<label, A("start_time"), A("end_time"), A("duration_minutes")>>
         [] fname = ToolName.create_event ->
              <<label, Get(args, "summary", JStr(Untitled)), A("start_time"),
                A("end_time"), OrEmpty(Get(args, "attendees", JArr(<<>>)))>>
         [] fname = ToolName.reply_email ->
              <<label, A("message_id"), A("body"),
                Get(args, "reply_all", JBool(FALSE))>>
         [] fname = ToolName.forward_email ->
              <<label, A("message_id"), A("to"), A("body")>>
         [] fname = ToolName.delete_emails ->
              <<label, A("message_ids"), Get(args, "hard_delete", JBool(FALSE))>>
         [] fname = ToolName.update_event ->
              <<label, A("event_id"), Kwargs(args)>>
         [] fname \in {ToolName.get_event, ToolName.delete_event} ->
              <<label, A("event_id")>>
         [] fname = ToolName.respond_to_invitation ->
              <<label, A("event_id"), A("response")>>
         [] fname \in {ToolName.mark_email_as_read,
                       ToolName.mark_email_as_unread, ToolName.star_email} ->
              <<label, A("message_id")>>

\* res = f"Error: Unknown tool {fname}"
UnknownTool(fname) == UnknownToolPrefix \o fname

\* res = f"Error executing {fname}: {str(e)}"
ErrorExecuting(fname, e) == ErrorExecutingPrefix \o fname \o <<":", " ">> \o e

\* the dict execute_tool returns
ToolMessage(cid, res) ==
    [role |-> "tool", tool_call_id |-> cid, content |-> res]

\* messages.extend(history[-8:])
HistoryWindow == 8

LastOf(h, n) ==
    SubSeq(h, IF Len(h) > n THEN Len(h) - n + 1 ELSE 1, Len(h))

\* the number of iterations of the agent loop
max_turns == 5

\* SECRETARY_MAX_TURNS as verify_pii_secretary.py configures it
SECRETARY_MAX_TURNS == 2

(***************************************************************************)
(* The environment: the caller, the provider and the tool layer            *)
(***************************************************************************)
\* the queries: one with an email address, one without
Queries == {EmailA, Word}

\* the n messages of a history; the first holds an email address
History(n) ==
    [i \in 1..n |->
       [role |-> IF i % 2 = 1 THEN "user" ELSE "assistant",
        content |-> IF i = 1 THEN EmailB ELSE Word]]

\* the longest history, longer than the window
MaxHistory == 9

Histories == {History(n) : n \in {0, 1, MaxHistory}}

\* tool_call.function.arguments: a JSON text, given as the value it parses
\* to, or a text that is no JSON
Json(value) == [valid |-> TRUE, value |-> value]

NotJson == [valid |-> FALSE]

ToolCall(id, name, arguments) ==
    [id |-> id, name |-> name, arguments |-> arguments]

\* list_emails({"filters": {"sender": "{{EMAIL_1}}"}})
CallList ==
    ToolCall("call_1", ToolName.list_emails,
             Json(JObj(<<[k |-> "filters",
                          v |-> JObj(<<[k |-> "sender",
                                        v |-> JStr(Token(TypeEMAIL, 1))]>>)]>>)))

\* get_email({"message_id": "m1"})
CallGet ==
    ToolCall("call_2", ToolName.get_email,
             Json(JObj(<<[k |-> "message_id", v |-> JStr(<<"m", "1">>)]>>)))

\* a call whose arguments are not JSON
CallNotJson == ToolCall("call_3", ToolName.list_events, NotJson)

\* response.content is <<>> when it is None or empty
Response(content, tool_calls) ==
    [content |-> content, tool_calls |-> tool_calls]

Responses ==
    { Response(<<"o", "k">>, <<>>),
      Response(<<>>, <<>>),
      Response(Token(TypeEMAIL, 1), <<>>),
      Response(<<>>, <<CallList>>),
      Response(<<>>, <<CallList, CallGet>>),
      Response(<<>>, <<CallList, CallNotJson>>),
      Response(<<>>, <<CallGet, CallNotJson>>) }

\* what a tool of the tool layer does: return a text (here one that holds
\* an email address), or raise
Returns(text) == [raises |-> FALSE, text |-> text]

Raises(e) == [raises |-> TRUE, text |-> e]

ToolOutcomes ==
    { Returns(<<"F", "r", "o", "m", ":", " ">> \o EmailB),
      Raises(<<"b", "o", "o", "m">>) }

(***************************************************************************)
(* The run of process_request                                              *)
(***************************************************************************)
InitRun ==
    /\ pc = "idle"
    /\ query = <<>>
    /\ history = <<>>
    /\ messages = <<>>
    /\ turn = 0
    /\ tasks = <<>>
    /\ result = <<>>
    /\ sent = <<>>
    /\ generate_calls = 0
    /\ invocations = <<>>

\* process_request(q, h) up to the agent loop
ProcessRequest(q, h) ==
    /\ pc = "idle"
    /\ query' = q
    /\ history' = h
    /\ messages' = <<[role |-> "system", content |-> system_prompt]>>
                     \o LastOf(h, HistoryWindow)
                     \o <<[role |-> "user", content |-> q]>>
    /\ pc' = "loop"
    /\ UNCHANGED <<turn, tasks, result, sent, generate_calls, invocations>>
    /\ UNCHANGED <<scopevars, extvars>>

\* response = await self.provider.generate(messages, ...): the call
Generate ==
    /\ pc = "loop"
    /\ turn < max_turns
    /\ sent' = messages
    /\ generate_calls' = generate_calls + 1
    /\ pc' = "generate"
    /\ UNCHANGED <<query, history, messages, turn, tasks, result, invocations>>
    /\ UNCHANGED <<scopevars, extvars>>

\* assistant_msg
AssistantMessage(response) ==
    LET role == [role |-> "assistant"]
        content == IF response.content # <<>>
                   THEN [content |-> response.content] ELSE <<>>
        calls == IF response.tool_calls # <<>>
                 THEN [tool_calls |-> response.tool_calls] ELSE <<>>
    IN role @@ content @@ calls

\* the coroutine execute_tool(function_name, arguments, call_id)
Task(tool_call) ==
    [fname |-> tool_call.name, args |-> tool_call.arguments.value,
     cid |-> tool_call.id, state |-> "created", res |-> <<>>]

\* the provider returns response: the loop body from there to the return,
\* to the json.loads that raises, or to the await of asyncio.gather
GenerateReturns(response) ==
    /\ pc = "generate"
    /\ messages' = Append(messages, AssistantMessage(response))
    /\ IF response.tool_calls = <<>>
       THEN /\ result' = IF response.content # <<>>
                         THEN response.content ELSE ImDone
            /\ pc' = "done"
            /\ UNCHANGED tasks
       ELSE IF \E i \in 1..Len(response.tool_calls) :
                 ~response.tool_calls[i].arguments.valid
       THEN /\ pc' = "raised"
            /\ UNCHANGED <<result, tasks>>
       ELSE /\ tasks' = [i \in 1..Len(response.tool_calls) |->
                           Task(response.tool_calls[i])]
            /\ pc' = "gather"
            /\ UNCHANGED result
    /\ UNCHANGED <<query, history, turn, sent, generate_calls, invocations>>
    /\ UNCHANGED <<scopevars, extvars>>

\* task i runs from its start to its first await (the call of the tool), or
\* to its end when no tool is called; the tasks start in the order of the
\* list given to gather
TaskStart(i) ==
    /\ pc = "gather"
    /\ tasks[i].state = "created"
    /\ \A j \in 1..(i - 1) : tasks[j].state # "created"
    /\ IF IsDispatched(tasks[i].fname)
       THEN /\ invocations' =
                 Append(invocations,
                        [name |-> tasks[i].fname, cid |-> tasks[i].cid,
                         args |-> ToolArgs(tasks[i].fname, tasks[i].args)])
            /\ tasks' = [tasks EXCEPT ![i].state = "awaiting"]
       ELSE /\ tasks' = [tasks EXCEPT ![i].state = "done",
                                      ![i].res = UnknownTool(tasks[i].fname)]
            /\ UNCHANGED invocations
    /\ UNCHANGED <<pc, query, history, messages, turn, result, sent,
                   generate_calls>>
    /\ UNCHANGED <<scopevars, extvars>>

\* the tool called by task i returns or raises, and the task ends
TaskFinish(i, outcome) ==
    /\ pc = "gather"
    /\ tasks[i].state = "awaiting"
    /\ tasks' = [tasks EXCEPT
                   ![i].state = "done",
                   ![i].res = IF outcome.raises
                              THEN ErrorExecuting(tasks[i].fname, outcome.text)
                              ELSE outcome.text]
    /\ UNCHANGED <<pc, query, history, messages, turn, result, sent,
                   generate_calls, invocations>>
    /\ UNCHANGED <<scopevars, extvars>>

\* results = await asyncio.gather(*tasks); messages.extend(results)
Gather ==
    /\ pc = "gather"
    /\ \A i \in 1..Len(tasks) : tasks[i].state = "done"
    /\ messages' = messages \o [i \in 1..Len(tasks) |->
                                  ToolMessage(tasks[i].cid, tasks[i].res)]
    /\ tasks' = <<>>
    /\ turn' = turn + 1
    /\ pc' = "loop"
    /\ UNCHANGED <<query, history, result, sent, generate_calls, invocations>>
    /\ UNCHANGED <<scopevars, extvars>>

\* the loop ends: return "I reached the maximum number of steps ..."
GiveUp ==
    /\ pc = "loop"
    /\ turn = max_turns
    /\ result' = MaxStepsMessage
    /\ pc' = "done"
    /\ UNCHANGED <<query, history, messages, turn, tasks, sent,
                   generate_calls, invocations>>
    /\ UNCHANGED <<scopevars, extvars>>

(***************************************************************************)
(* ChatPipeline.run with its PIIMiddleware: the runs of one pipeline       *)
(* object, on one chat                                                     *)
(***************************************************************************)
\* the runs of the pipeline object
PipeRuns == {1, 2}

PipeContents == {EmailA, EmailB}

\* response.content of the provider: <<>> when it is None or empty
PipeAnswers == {Token(TypeEMAIL, 1), <<>>}

\* self.styles["default"] (no memories are stored for the user)
BasePrompt ==
    <<"Y", "o", "u", " ", "a", "r", "e", " ", "a", " ", "h", "e", "l", "p",
      "f", "u", "l", " ", "a", "s", "s", "i", "s", "t", "a", "n", "t", ".">>

\* the text saved when the answer is blank (it is in Ukrainian)
NoAnswer ==
    <<"cyr_V", "cyr_y", "cyr_b", "cyr_a", "cyr_ch", "cyr_t", "cyr_e", ",",
      " ", "cyr_n", "cyr_e", " ", "cyr_v", "cyr_d", "cyr_a", "cyr_l", "cyr_o",
      "cyr_s", "cyr_ya", " ", "cyr_z", "cyr_h", "cyr_e", "cyr_n", "cyr_e",
      "cyr_r", "cyr_u", "cyr_v", "cyr_a", "cyr_t", "cyr_y", " ", "cyr_v",
      "cyr_i", "cyr_d", "cyr_p", "cyr_o", "cyr_v", "cyr_i", "cyr_d",
      "cyr_soft", ".">>

\* not text.strip()
IsBlank(s) == \A i \in 1..Len(s) : s[i] \in Space

\* build_context: history[-history_limit:], then _trim_history, which keeps
\* the most recent messages whose contents fit in max_chars
history_limit == 50

max_chars == 40000

RecentHistory(h) ==
    LET recent == LastOf(h, history_limit)
        RECURSIVE TrimFrom(_, _)
        TrimFrom(i, total_chars) ==
          IF i = 0 \/ total_chars + Len(recent[i].content) > max_chars
          THEN <<>>
          ELSE TrimFrom(i - 1, total_chars + Len(recent[i].content))
                 \o <<recent[i]>>
    IN TrimFrom(Len(recent), 0)

\* the pipeline object after __init__, and its runs before they start
InitPipe ==
    /\ pm_dicts = <<<<>>>>
    /\ pm_ref = 1
    /\ transcript = <<>>
    /\ prun = [r \in PipeRuns |->
                [pc |-> "idle", content |-> <<>>, history |-> <<>>,
                 masked |-> <<>>, arg |-> 0, messages |-> <<>>,
                 raw |-> <<>>, final |-> <<>>]]

\* run(chat_id, content) up to its first await: self.pii_middleware.reset()
\* makes a new dict; save_user_message awaits the commit
StartRun(r, content) ==
    /\ prun[r].pc = "idle"
    /\ pm_dicts' = Append(pm_dicts, <<>>)
    /\ pm_ref' = Len(pm_dicts) + 1
    /\ prun' = [prun EXCEPT ![r].pc = "save", ![r].content = content]
    /\ UNCHANGED transcript
    /\ UNCHANGED <<scopevars, runvars, provvars, chatvars>>

\* the user message is committed
SaveUserMessage(r) ==
    /\ prun[r].pc = "save"
    /\ transcript' = Append(transcript,
                            [role |-> "user", content |-> prun[r].content])
    /\ prun' = [prun EXCEPT ![r].pc = "context"]
    /\ UNCHANGED <<pm_dicts, pm_ref>>
    /\ UNCHANGED <<scopevars, runvars, provvars, chatvars>>

\* system_prompt, history = await self.context_builder.build_context(...)
BuildContext(r) ==
    /\ prun[r].pc = "context"
    /\ prun' = [prun EXCEPT ![r].history = RecentHistory(transcript),
                            ![r].pc = IF RecentHistory(transcript) = <<>>
                                      THEN "mask_user" ELSE "mask_history"]
    /\ UNCHANGED <<pm_dicts, pm_ref, transcript>>
    /\ UNCHANGED <<scopevars, runvars, provvars, chatvars>>

\* asyncio.to_thread(self.pii_service.mask, text, self.mapping): the call,
\* which passes the dict self.mapping refers to
MaskBegin(r) ==
    /\ prun[r].pc \in {"mask_history", "mask_user"}
    /\ prun' = [prun EXCEPT
                  ![r].arg = pm_ref,
                  ![r].pc = IF prun[r].pc = "mask_history"
                            THEN "masking_history" ELSE "masking_user"]
    /\ UNCHANGED <<pm_dicts, pm_ref, transcript>>
    /\ UNCHANGED <<scopevars, runvars, provvars, chatvars>>

\* the mask call returns res: mask has written to the dict it was given,
\* and masked_content, self.mapping = res; after the user message the
\* messages are built and provider.generate is called
MaskEnd(r) ==
    /\ prun[r].pc \in {"masking_history", "masking_user"}
    /\ \E res \in {mask(IF prun[r].pc = "masking_history"
                         THEN prun[r].history[Len(prun[r].masked) + 1].content
                         ELSE prun[r].content,
                         pm_dicts[prun[r].arg])} :
         /\ pm_dicts' = [pm_dicts EXCEPT ![prun[r].arg] = res.mapping]
         /\ IF prun[r].pc = "masking_history"
            THEN prun' = [prun EXCEPT
                            ![r].masked =
                               Append(prun[r].masked,
                                      [role |-> prun[r].history[
                                                  Len(prun[r].masked) + 1].role,
                                       content |-> res.text]),
                            ![r].pc = IF Len(prun[r].masked) + 1
                                           = Len(prun[r].history)
                                      THEN "mask_user" ELSE "mask_history"]
            ELSE prun' = [prun EXCEPT
                            ![r].messages =
                               <<[role |-> "system", content |-> BasePrompt]>>
                                 \o prun[r].masked
                                 \o <<[role |-> "user", content |-> res.text]>>,
                            ![r].pc = "generate"]
    /\ pm_ref' = prun[r].arg
    /\ UNCHANGED transcript
    /\ UNCHANGED <<scopevars, runvars, provvars, chatvars>>

\* provider.generate returns content; pii_middleware.unmask returns "" for
\* an empty text and else calls asyncio.to_thread(self.pii_service.unmask,
\* text, self.mapping)
PipeGenerateReturns(r, content) ==
    /\ prun[r].pc = "generate"
    /\ prun' = [prun EXCEPT
                  ![r].raw = content,
                  ![r].arg = IF content = <<>> THEN prun[r].arg ELSE pm_ref,
                  ![r].final = IF content = <<>> THEN NoAnswer ELSE <<>>,
                  ![r].pc = IF content = <<>> THEN "persist" ELSE "unmask"]
    /\ UNCHANGED <<pm_dicts, pm_ref, transcript>>
    /\ UNCHANGED <<scopevars, runvars, provvars, chatvars>>

\* the unmask call returns; a blank answer becomes the fallback text
UnmaskEnd(r) ==
    /\ prun[r].pc = "unmask"
    /\ \E final_content \in {unmask(prun[r].raw, pm_dicts[prun[r].arg])} :
         prun' = [prun EXCEPT
                    ![r].final = IF IsBlank(final_content)
                                 THEN NoAnswer ELSE final_content,
                    ![r].pc = "persist"]
    /\ UNCHANGED <<pm_dicts, pm_ref, transcript>>
    /\ UNCHANGED <<scopevars, runvars, provvars, chatvars>>

\* save_assistant_message commits the answer, and run returns
SaveAssistantMessage(r) ==
    /\ prun[r].pc = "persist"
    /\ transcript' = Append(transcript,
                            [role |-> "assistant", content |-> prun[r].final])
    /\ prun' = [prun EXCEPT ![r].pc = "done"]
    /\ UNCHANGED <<pm_dicts, pm_ref>>
    /\ UNCHANGED <<scopevars, runvars, provvars, chatvars>>

NextPipe ==
    \/ \E r \in PipeRuns, content \in PipeContents : StartRun(r, content)
    \/ \E r \in PipeRuns : SaveUserMessage(r)
    \/ \E r \in PipeRuns : BuildContext(r)
    \/ \E r \in PipeRuns : MaskBegin(r)
    \/ \E r \in PipeRuns : MaskEnd(r)
    \/ \E r \in PipeRuns, content \in PipeAnswers :
         PipeGenerateReturns(r, content)
    \/ \E r \in PipeRuns : UnmaskEnd(r)
    \/ \E r \in PipeRuns : SaveAssistantMessage(r)

(***************************************************************************)
(* ModelRegistry (core/model_capabilities.py).  A model id is a text; a    *)
(* descriptor is a record, and max_output_tokens is absent when it is None *)
(***************************************************************************)
ModelCapability(supports_temperature, supports_vision, supports_tools, api_type) ==
    [supports_temperature |-> supports_temperature,
     supports_vision |-> supports_vision,
     supports_tools |-> supports_tools,
     supports_responses_api |-> FALSE,
     api_type |-> api_type]

ModelId ==
    [gpt_5 |-> <<"g", "p", "t", "-", "5">>,
     gpt_5_nano |-> <<"g", "p", "t", "-", "5", "-", "n", "a", "n", "o">>,
     gpt_5_mini |-> <<"g", "p", "t", "-", "5", "-", "m", "i", "n", "i">>,
     gpt_5_1 |-> <<"g", "p", "t", "-", "5", ".", "1">>,
     gpt_5_pro |-> <<"g", "p", "t", "-", "5", "-", "p", "r", "o">>,
     o1 |-> <<"o", "1">>,
     o1_mini |-> <<"o", "1", "-", "m", "i", "n", "i">>,
     gpt_4o |-> <<"g", "p", "t", "-", "4", "o">>,
     o3 |-> <<"o", "3">>]

\* ModelRegistry._capabilities
capabilities ==
    <<[k |-> ModelId.gpt_5_nano,
       v |-> ModelCapability(TRUE, FALSE, TRUE, "responses")],
      [k |-> ModelId.gpt_5_mini,
       v |-> ModelCapability(TRUE, FALSE, TRUE, "responses")],
      [k |-> ModelId.gpt_5_1,
       v |-> ModelCapability(TRUE, TRUE, TRUE, "responses")]>>

\* ModelRegistry._defaults
defaults == ModelCapability(TRUE, FALSE, FALSE, "chat_completions")

\* dict[key], for a key the dict has
Entry(dict, key) ==
    dict[CHOOSE n \in 1..Len(dict) : dict[n].k = key].v

\* the family prefixes are tried before the exact keys
prefix_first(model_id) ==
    IF model_id = <<>> THEN defaults
    ELSE IF StartsWith(model_id, ModelId.gpt_5)
    THEN Entry(capabilities, ModelId.gpt_5_nano)
    ELSE IF StartsWith(model_id, ModelId.o1)
    THEN ModelCapability(FALSE, FALSE, FALSE, "chat_completions")
    ELSE IF HasKey(capabilities, model_id) THEN Entry(capabilities, model_id)
    ELSE defaults

\* ModelRegistry.get_capabilities
get_capabilities(model_id) ==
    IF model_id = <<>> THEN defaults
    ELSE IF HasKey(capabilities, model_id) THEN Entry(capabilities, model_id)
    ELSE IF StartsWith(model_id, ModelId.gpt_5)
    THEN IF HasKey(capabilities, ModelId.gpt_5_nano)
         THEN Entry(capabilities, ModelId.gpt_5_nano) ELSE defaults
    ELSE IF StartsWith(model_id, ModelId.o1)
    THEN ModelCapability(FALSE, FALSE, FALSE, "chat_completions")
    ELSE defaults

\* the ids the registry is asked about; <<>> is the empty id
ModelIds ==
    {<<>>, ModelId.gpt_5_nano, ModelId.gpt_5_mini, ModelId.gpt_5_1,
     ModelId.gpt_5, ModelId.gpt_5_pro, ModelId.o1, ModelId.o1_mini,
     ModelId.gpt_4o, ModelId.o3}

(***************************************************************************)
(* OpenAIProvider (providers/openai_provider.py).  Options and messages*)
(* are records: a key a dict does not have, or has with the value None, is *)
(* a field the record does not have.  Contents are strings; the tool       *)
(* definitions are an opaque value.                                        *)
(***************************************************************************)
default_model == ModelId.gpt_5_mini

\* settings.OPENAI_MAX_COMPLETION_TOKENS
OPENAI_MAX_COMPLETION_TOKENS == 2048

\* options.get("model") or self.default_model
ModelOf(options) ==
    IF "model" \in DOMAIN options /\ options.model # <<>>
    THEN options.model ELSE default_model

\* configured_max, capped by the ceiling of the descriptor when it has one
ConfiguredMax(options, caps) ==
    LET configured_max ==
          IF "max_completion_tokens" \in DOMAIN options
             /\ options.max_completion_tokens # 0
          THEN options.max_completion_tokens
          ELSE OPENAI_MAX_COMPLETION_TOKENS
    IN IF "max_output_tokens" \in DOMAIN caps /\ caps.max_output_tokens # 0
       THEN IF configured_max < caps.max_output_tokens
            THEN configured_max ELSE caps.max_output_tokens
       ELSE configured_max

\* the temperature is sent whenever the caller gave one
TemperatureAsGiven(options, caps) ==
    IF "temperature" \in DOMAIN options
    THEN [temperature |-> options.temperature] ELSE <<>>

\* the temperature of the request, as a record to merge into it:
\*   temperature = options.get("temperature", None)
\*   if temperature is not None and not caps.supports_temperature: None
Temperature(options, caps) ==
    IF "temperature" \in DOMAIN options /\ caps.supports_temperature
    THEN [temperature |-> options.temperature] ELSE <<>>

\* req[key] = options[key] when options has a truthy value for key
Truthy(options, key) ==
    IF key \in DOMAIN options /\ options[key] # ""
    THEN [x \in {key} |-> options[key]] ELSE <<>>

\* m.get("content", "")
ContentOf(m) == IF "content" \in DOMAIN m THEN m.content ELSE ""

\* m.get("tool_call_id") or m.get("call_id"); "" stands for None
CallIdOf(m) ==
    IF "tool_call_id" \in DOMAIN m /\ m.tool_call_id # "" THEN m.tool_call_id
    ELSE IF "call_id" \in DOMAIN m THEN m.call_id ELSE ""

\* the loop of _build_responses_input_and_instructions from message idx on;
\* acc.instructions is <<>> while instructions is None
RECURSIVE BuildFrom(_, _, _)
BuildFrom(msgs, idx, acc) ==
    IF idx > Len(msgs) THEN acc
    ELSE LET m == msgs[idx]
         IN IF m.role = "system" /\ acc.instructions = <<>>
            THEN BuildFrom(msgs, idx + 1,
                           [acc EXCEPT !.instructions = <<ContentOf(m)>>])
            ELSE IF m.role = "tool"
            THEN BuildFrom(msgs, idx + 1,
                   IF CallIdOf(m) # ""
                   THEN [acc EXCEPT !.input_items =
                           Append(@, [type |-> "function_call_output",
                                      call_id |-> CallIdOf(m),
                                      output |-> ContentOf(m)])]
                   ELSE acc)
            ELSE BuildFrom(msgs, idx + 1,
                   [acc EXCEPT !.input_items =
                      Append(@, [role |-> m.role, content |-> ContentOf(m)])])

\* (mutant) the tool messages are left out of the input
build_without_tool_outputs(msgs) ==
    BuildFrom(SelectSeq(msgs, LAMBDA m : m.role # "tool"), 1,
              [instructions |-> <<>>, input_items |-> <<>>])
build_responses_input_and_instructions(msgs) ==
    BuildFrom(msgs, 1, [instructions |-> <<>>, input_items |-> <<>>])

\* _sanitize_tool_calls: a tool call is None, a dict or an SDK object with
\* model_dump; the dicts that have a "function" dict are kept
sanitize_tool_calls(tool_calls) ==
    LET given == SelectSeq(tool_calls, LAMBDA tc : tc.form # "None")
        out == [i \in 1..Len(given) |-> given[i].value]
    IN SelectSeq(out, LAMBDA item : "function" \in DOMAIN item)

\* _sanitize_messages_for_chat_completions
sanitize_messages_for_chat_completions(msgs) ==
    [i \in 1..Len(msgs) |->
       LET m == msgs[i]
       IN [role |-> m.role]
            @@ (IF "content" \in DOMAIN m
                THEN [content |-> m.content] ELSE <<>>)
            @@ (IF m.role = "tool" /\ "tool_call_id" \in DOMAIN m
                THEN [tool_call_id |-> m.tool_call_id] ELSE <<>>)
            @@ (IF m.role = "tool" /\ "name" \in DOMAIN m
                THEN [name |-> m.name] ELSE <<>>)
            @@ (IF "tool_calls" \in DOMAIN m
                THEN [tool_calls |->
                        sanitize_tool_calls(
                          [j \in 1..Len(m.tool_calls) |->
                             [form |-> "dict", value |-> m.tool_calls[j]]])]
                ELSE <<>>)]

\* the tool calls are given the ids of the output items
extract_with_item_ids(response) ==
    LET calls == SelectSeq(response.output,
                           LAMBDA item : item.type = "function_call")
    IN [i \in 1..Len(calls) |->
          [id |-> calls[i].id,
           type |-> "function",
           function |-> [name |-> calls[i].name,
                         arguments |-> calls[i].arguments]]]

\* _extract_responses_tool_calls
extract_responses_tool_calls(response) ==
    LET calls == SelectSeq(response.output,
                           LAMBDA item : item.type = "function_call")
    IN [i \in 1..Len(calls) |->
          [id |-> calls[i].call_id,
           type |-> "function",
           function |-> [name |-> calls[i].name,
                         arguments |-> calls[i].arguments]]]

\* the request generate and stream_generate build for the client
Request(msgs, options, stream) ==
    LET model == ModelOf(options)
        caps == get_capabilities(model)
        built == build_responses_input_and_instructions(msgs)
    IN IF caps.api_type = "responses"
       THEN [model |-> model,
             input |-> built.input_items,
             max_output_tokens |-> ConfiguredMax(options, caps)]
              @@ (IF stream THEN [stream |-> TRUE] ELSE <<>>)
              @@ (IF built.instructions # <<>> /\ built.instructions # <<"">>
                  THEN [instructions |-> built.instructions[1]] ELSE <<>>)
              @@ Temperature(options, caps)
              @@ Truthy(options, "tools")
              @@ Truthy(options, "tool_choice")
              @@ Truthy(options, "previous_response_id")
       ELSE [model |-> model,
             messages |-> sanitize_messages_for_chat_completions(msgs),
             max_completion_tokens |-> ConfiguredMax(options, caps)]
              @@ (IF stream THEN [stream |-> TRUE] ELSE <<>>)
              @@ Temperature(options, caps)
              @@ Truthy(options, "tools")
              @@ Truthy(options, "tool_choice")

\* the id of the k-th response of the provider
RespId(k) == "resp_" \o ToString(k)

\* the function calls and the other items a response is made of
FunctionCall(n, name) ==
    [type |-> "function_call", id |-> "fc_" \o ToString(n),
     call_id |-> "call_" \o ToString(n), name |-> name, arguments |-> "{}"]

ChatToolCall(n, name) ==
    [form |-> "model_dump",
     value |-> [id |-> "call_" \o ToString(n), type |-> "function",
                function |-> [name |-> name, arguments |-> "{}"]]]

\* what client.responses.create and client.chat.completions.create return
\* for the k-th request: an answer, or tool calls among other items
ClientReturns(api_type, k) ==
    IF api_type = "responses"
    THEN {[id |-> RespId(k), output_text |-> "ok",
           output |-> <<[type |-> "message", id |-> "msg_1"]>>],
          [id |-> RespId(k), output_text |-> "",
           output |-> <<[type |-> "reasoning", id |-> "rs_1"],
                        FunctionCall(1, "list_emails"),
                        [type |-> "message", id |-> "msg_1"],
                        FunctionCall(2, "get_email")>>]}
    ELSE {[content |-> "ok", tool_calls |-> <<>>],
          [content |-> "",
           tool_calls |-> <<[form |-> "None"],
                            ChatToolCall(1, "list_emails"),
                            [form |-> "model_dump",
                             value |-> [id |-> "call_3", type |-> "custom",
                                        custom |-> [name |-> "shell",
                                                    input |-> "ls"]]],
                            ChatToolCall(2, "get_email")>>]}

\* the errors the client raises; it can reject a temperature it was sent
TemperatureUnsupported == "Unsupported parameter: 'temperature'"

ClientErrors == {"timeout", TemperatureUnsupported}

\* the options of process_request
SecretaryOptions == [tools |-> "tools", tool_choice |-> "auto"]

ProvOptions ==
    {model @@ temperature @@ handle @@ runner @@ SecretaryOptions :
       model \in {<<>>, [model |-> ModelId.gpt_5_1],
                  [model |-> ModelId.gpt_5_pro], [model |-> ModelId.o1_mini],
                  [model |-> ModelId.gpt_4o]},
       temperature \in {<<>>, [temperature |-> 0], [temperature |-> 1]},
       handle \in {<<>>, [previous_response_id |-> RespId(0)]},
       runner \in {<<>>, [tool_runner |-> TRUE]}}

ProvMessages ==
    {<<[role |-> "system", content |-> "sys"],
       [role |-> "user", content |-> "hi"]>>,
     <<[role |-> "system", content |-> "sys"],
       [role |-> "user", content |-> "hi"],
       [role |-> "assistant",
        tool_calls |-> <<[id |-> "call_0", type |-> "function",
                          function |-> [name |-> "list_events",
                                        arguments |-> "{}"]]>>],
       [role |-> "tool", tool_call_id |-> "call_0", content |-> "none"]>>}

\* the requests of one run are capped: the tool loops are not bounded
MaxRequests == 3

InitProv ==
    /\ gen = [pc |-> "idle", fn |-> "", messages |-> <<>>, options |-> <<>>,
              tool_calls |-> <<>>, tool_msgs |-> <<>>, result |-> <<>>,
              error |-> ""]
    /\ requests = <<>>
    /\ outcomes = <<>>
    /\ lookup = <<>>

\* ModelRegistry.get_capabilities(model_id), called on its own
GetCapabilities(model_id) ==
    /\ lookup' = [model_id |-> model_id, caps |-> get_capabilities(model_id)]
    /\ UNCHANGED <<gen, requests, outcomes>>
    /\ UNCHANGED <<scopevars, runvars, pipevars, chatvars>>

\* generate(msgs, options), up to the await of the client
GenerateCall(msgs, options) ==
    /\ gen.pc = "idle"
    /\ gen' = [gen EXCEPT !.pc = "create", !.fn = "generate",
                          !.messages = msgs, !.options = options]
    /\ requests' = Append(requests,
                          [req |-> Request(msgs, options, FALSE),
                           messages |-> msgs, fresh |-> <<>>])
    /\ UNCHANGED <<outcomes, lookup>>
    /\ UNCHANGED <<scopevars, runvars, pipevars, chatvars>>

\* stream_generate(msgs, options), up to the await of the client
StreamGenerateCall(msgs, options) ==
    /\ gen.pc = "idle"
    /\ gen' = [gen EXCEPT !.pc = "create", !.fn = "stream_generate",
                          !.messages = msgs, !.options = options]
    /\ requests' = Append(requests,
                          [req |-> Request(msgs, options, TRUE),
                           messages |-> msgs, fresh |-> <<>>])
    /\ UNCHANGED <<outcomes, lookup>>
    /\ UNCHANGED <<scopevars, runvars, pipevars, chatvars>>

\* the variant the request in flight was built for
ApiType == get_capabilities(ModelOf(gen.options)).api_type

\* ProviderResponse(content=content, tool_calls=tool_calls, meta_data=...)
ProviderResponse(response, tool_calls) ==
    IF "output" \in DOMAIN response
    THEN [content |-> response.output_text, tool_calls |-> tool_calls,
          meta_data |-> [response_id |-> response.id]]
    ELSE [content |-> response.content, tool_calls |-> tool_calls,
          meta_data |-> <<>>]

\* the client returns response to generate: the tool calls are extracted;
\* with a tool_runner and tool calls the tools are run next, otherwise
\* generate returns
CreateReturns(response) ==
    /\ gen.pc = "create"
    /\ gen.fn = "generate"
    /\ \E tool_calls \in {IF "output" \in DOMAIN response
                          THEN extract_responses_tool_calls(response)
                          ELSE sanitize_tool_calls(response.tool_calls)} :
         /\ Len(requests) < MaxRequests \/ tool_calls = <<>>
         /\ IF "tool_runner" \in DOMAIN gen.options /\ tool_calls # <<>>
            THEN gen' = [gen EXCEPT !.pc = "tools",
                                    !.tool_calls = tool_calls,
                                    !.tool_msgs = <<>>]
            ELSE gen' = [gen EXCEPT !.pc = "returned",
                                    !.result =
                                       ProviderResponse(response, tool_calls)]
    /\ outcomes' = Append(outcomes, [raises |-> FALSE, response |-> response])
    /\ UNCHANGED <<requests, lookup>>
    /\ UNCHANGED <<scopevars, runvars, pipevars, chatvars>>

\* the message of the tool call tc whose tool_runner returned out
RunnerMessage(tc, out) ==
    [role |-> "tool", tool_call_id |-> tc.id, content |-> out,
     name |-> tc.function.name]

\* tool_runner returns out for the next tool call; after the last one
\* generate calls itself with messages2, up to the await of the client
ToolRunnerReturns(out) ==
    /\ gen.pc = "tools"
    /\ \E tool_msgs \in {Append(gen.tool_msgs,
                                RunnerMessage(
                                  gen.tool_calls[Len(gen.tool_msgs) + 1],
                                  out))} :
         IF Len(tool_msgs) < Len(gen.tool_calls)
         THEN /\ gen' = [gen EXCEPT !.tool_msgs = tool_msgs]
              /\ UNCHANGED requests
         ELSE \E messages2 \in
                   {IF ApiType = "responses"
                    THEN gen.messages \o tool_msgs
                    ELSE gen.messages
                           \o <<[role |-> "assistant", content |-> "",
                                 tool_calls |-> gen.tool_calls]>>
                           \o tool_msgs},
                 options2 \in
                   {IF ApiType = "responses"
                    THEN [previous_response_id |->
                            outcomes[Len(outcomes)].response.id]
                           @@ gen.options
                    ELSE gen.options} :
                /\ gen' = [gen EXCEPT !.pc = "create",
                                      !.messages = messages2,
                                      !.options = options2,
                                      !.tool_calls = <<>>,
                                      !.tool_msgs = <<>>]
                /\ requests' = Append(requests,
                                      [req |-> Request(messages2, options2,
                                                       FALSE),
                                       messages |-> messages2,
                                       fresh |-> tool_msgs])
    /\ UNCHANGED <<outcomes, lookup>>
    /\ UNCHANGED <<scopevars, runvars, pipevars, chatvars>>

\* the awaited call raises e: except Exception as e: ... raise
AwaitRaises(e) ==
    /\ gen.pc \in {"create", "tools"}
    /\ e = TemperatureUnsupported =>
         /\ gen.pc = "create"
         /\ "temperature" \in DOMAIN requests[Len(requests)].req
    /\ gen' = [gen EXCEPT !.pc = "raised", !.error = e]
    /\ outcomes' = IF gen.pc = "create"
                   THEN Append(outcomes, [raises |-> TRUE, error |-> e])
                   ELSE outcomes
    /\ UNCHANGED <<requests, lookup>>
    /\ UNCHANGED <<scopevars, runvars, pipevars, chatvars>>

\* the client returns the stream to stream_generate, which returns it
StreamCreateReturns ==
    /\ gen.pc = "create"
    /\ gen.fn = "stream_generate"
    /\ gen' = [gen EXCEPT !.pc = "returned", !.result = [stream |-> TRUE]]
    /\ outcomes' = Append(outcomes,
                          [raises |-> FALSE, response |-> [stream |-> TRUE]])
    /\ UNCHANGED <<requests, lookup>>
    /\ UNCHANGED <<scopevars, runvars, pipevars, chatvars>>

\* process_request got tool calls from generate: it appends the assistant
\* message and one tool message for each call, and calls generate again
\* with the same options, up to the await of the client
ProcessRequestTurn(res) ==
    /\ gen.pc = "returned"
    /\ gen.fn = "generate"
    /\ gen.options = SecretaryOptions
    /\ gen.result.tool_calls # <<>>
    /\ Len(requests) < MaxRequests
    /\ \E fresh \in {[i \in 1..Len(gen.result.tool_calls) |->
                        ToolMessage(gen.result.tool_calls[i].id, res)]} :
         \E messages2 \in
              {gen.messages
                 \o <<[role |-> "assistant",
                       tool_calls |-> gen.result.tool_calls]
                        @@ (IF gen.result.content # ""
                            THEN [content |-> gen.result.content]
                            ELSE <<>>)>>
                 \o fresh} :
           /\ gen' = [gen EXCEPT !.pc = "create", !.messages = messages2,
                                 !.result = <<>>]
           /\ requests' = Append(requests,
                                 [req |-> Request(messages2, gen.options,
                                                  FALSE),
                                  messages |-> messages2, fresh |-> fresh])
    /\ UNCHANGED <<outcomes, lookup>>
    /\ UNCHANGED <<scopevars, runvars, pipevars, chatvars>>

NextProv ==
    \/ \E model_id \in ModelIds : GetCapabilities(model_id)
    \/ \E msgs \in ProvMessages, options \in ProvOptions :
         GenerateCall(msgs, options)
    \/ \E msgs \in ProvMessages, options \in ProvOptions :
         StreamGenerateCall(msgs, options)
    \/ \E response \in ClientReturns(ApiType, Len(outcomes) + 1) :
         CreateReturns(response)
    \/ \E out \in {"result"} : ToolRunnerReturns(out)
    \/ \E e \in ClientErrors : AwaitRaises(e)
    \/ StreamCreateReturns
    \/ \E res \in {"result"} : ProcessRequestTurn(res)

(***************************************************************************)
(* The requests of ChatService (chat_service.py: send_message,             *)
(* send_message_stream) and ChatPipeline.run_stream (chat/pipeline.py):    *)
(* one request on a chat, from the masking of its context to the message   *)
(* it persists.  The system message holds no value and is left out of the  *)
(* masked list.                                                            *)
(***************************************************************************)
ChatFns == {"send_message", "send_message_stream", "run_stream"}

\* chat_service.py 149, 280: context_messages = history[-5:]
ContextWindow == 5

\* the contents of the recent messages of the chat
ChatContents == {EmailA, EmailB, Word}

\* the most recent messages that differ from one chat to the other
MaxContext == 2

\* the older messages of the chat: none, or enough to fill the window
Older == {<<>>, [i \in 1..(ContextWindow - 1) |-> Word]}

\* the messages of the chat when the request has saved its user message,
\* which is the last of them
Chats ==
    {older \o recent :
       older \in Older,
       recent \in UNION {[1..k -> ChatContents] : k \in 1..MaxContext}}

\* what the provider streams or returns: a token, its bare form, a blank
\* text, nothing
ChatOutputs ==
    {Token(TypeEMAIL, 1), TypeEMAIL \o <<"_", "1">>, <<" ">>, <<>>}

\* the chunks of one stream, empty ones included
MaxChunks == 3

\* dict.update(other)
RECURSIVE Update(_, _)
Update(d, other) ==
    IF other = <<>> THEN d
    ELSE Update(Put(d, Head(other).k, Head(other).v), Tail(other))

\* chat_service.py 162, 188 (and 283, 316): masked_content, mapping =
\* self.pii_service.mask(msg.content); masked_messages.append(...);
\* combined_mapping.update(mapping)
MergeOne(acc, res) ==
    [masked |-> Append(acc.masked, res.text),
     mapping |-> Update(acc.mapping, res.mapping)]

\* the loop over context_messages: each content is masked with a mapping of
\* its own
RECURSIVE MaskSeparately(_, _)
MaskSeparately(contents, acc) ==
    IF contents = <<>> THEN acc
    ELSE MaskSeparately(Tail(contents),
                        MergeOne(acc, mask(Head(contents), <<>>)))

\* pii_middleware.py 17-36: mask_history and mask_user_message pass
\* self.mapping to every mask call
ShareOne(acc, res) ==
    [masked |-> Append(acc.masked, res.text), mapping |-> res.mapping]

RECURSIVE MaskShared(_, _)
MaskShared(contents, acc) ==
    IF contents = <<>> THEN acc
    ELSE MaskShared(Tail(contents),
                    ShareOne(acc, mask(Head(contents), acc.mapping)))

NothingMasked == [masked |-> <<>>, mapping |-> <<>>]

\* the masked message list and the mapping of a request.  run_stream
\* (pipeline.py 91-104) masks the history build_context loaded after the
\* user message was saved, then the content of the user message
Prepared(fn, contents) ==
    IF fn = "run_stream"
    THEN MaskShared(contents \o <<contents[Len(contents)]>>, NothingMasked)
    ELSE MaskSeparately(LastOf(contents, ContextWindow), NothingMasked)

\* chat_service.py 208, 353: the text saved when the answer is blank
NoAnswerThisTime ==
    SubSeq(NoAnswer, 1, Len(NoAnswer) - 1)
      \o <<" ", "cyr_ts", "cyr_soft", "cyr_o", "cyr_h", "cyr_o", " ",
           "cyr_r", "cyr_a", "cyr_z", "cyr_u", ".">>

Fallback(fn) == IF fn = "run_stream" THEN NoAnswer ELSE NoAnswerThisTime

\* pipeline.py 128, 137: self.pii_middleware.unmask(text);
\* chat_service.py 341, 351: unmask(text, combined_mapping) if
\* combined_mapping else text; 206: unmask(raw_content, combined_mapping)
\* or raw_content
Unmasked(fn, text, mapping) ==
    IF fn = "send_message_stream" /\ mapping = <<>> THEN text
    ELSE IF fn = "send_message" /\ unmask(text, mapping) = <<>> THEN text
    ELSE unmask(text, mapping)

OrFallback(fn, text) == IF IsBlank(text) THEN Fallback(fn) ELSE text

\* the text that is persisted: pipeline.py 136-139, chat_service.py 350-353
\* and 206-208
FinalContent(fn, full_chunks, mapping) ==
    OrFallback(fn, Unmasked(fn, Concat(full_chunks), mapping))

InitChat ==
    /\ creq = [fn |-> "none", pc |-> "idle", contents |-> <<>>,
               masked |-> <<>>, combined_mapping |-> <<>>, rest |-> <<>>,
               chunks |-> 0, full_chunks |-> <<>>, disconnected |-> FALSE]
    /\ events = <<>>
    /\ closes = 0
    /\ saved = <<>>

\* the request up to the provider call: the context is masked, the provider
\* is called and will answer with output
ChatRequest(fn, contents, output) ==
    /\ creq.pc = "idle"
    /\ \E prepared \in {Prepared(fn, contents)} :
         creq' = [creq EXCEPT !.fn = fn,
                              !.pc = IF fn = "send_message" THEN "generate"
                                     ELSE "stream",
                              !.contents = contents,
                              !.masked = prepared.masked,
                              !.combined_mapping = prepared.mapping,
                              !.rest = output]
    /\ UNCHANGED <<events, closes, saved>>
    /\ UNCHANGED <<scopevars, runvars, pipevars, provvars>>

\* send_message, chat_service.py 193-228: the provider returns, the answer
\* is unmasked and persisted
ChatGenerateReturns ==
    /\ creq.pc = "generate"
    /\ saved' = Append(saved, FinalContent(creq.fn, <<creq.rest>>,
                                           creq.combined_mapping))
    /\ creq' = [creq EXCEPT !.pc = "done", !.rest = <<>>]
    /\ UNCHANGED <<events, closes>>
    /\ UNCHANGED <<scopevars, runvars, pipevars, provvars>>

\* one turn of "async for chunk in stream" with the client connected: the
\* chunk holds the next n characters; an empty delta is skipped, another is
\* kept, unmasked on its own and emitted
StreamChunk(n) ==
    /\ creq.pc = "stream"
    /\ n <= Len(creq.rest)
    /\ creq.chunks + 1 < MaxChunks \/ n = Len(creq.rest)
    /\ creq.chunks < MaxChunks
    /\ creq' = [creq EXCEPT
                  !.rest = SubSeq(creq.rest, n + 1, Len(creq.rest)),
                  !.chunks = creq.chunks + 1,
                  !.full_chunks =
                     IF n = 0 THEN creq.full_chunks
                     ELSE Append(creq.full_chunks, SubSeq(creq.rest, 1, n))]
    /\ events' = IF n = 0 THEN events
                 ELSE Append(events,
                             [delta |-> Unmasked(creq.fn,
                                                 SubSeq(creq.rest, 1, n),
                                                 creq.combined_mapping)])
    /\ UNCHANGED <<closes, saved>>
    /\ UNCHANGED <<scopevars, runvars, pipevars, provvars>>

\* the finally block: the stream is closed, the text received is unmasked
\* and persisted, done is emitted
Finally(exit, closed) ==
    /\ closes' = closes + closed
    /\ saved' = Append(saved, FinalContent(creq.fn, creq.full_chunks,
                                           creq.combined_mapping))
    /\ events' = Append(events, [done |-> TRUE])
    /\ creq' = [creq EXCEPT !.pc = exit, !.disconnected = (closed = 2)]

\* (mutant) the return on disconnect skips the finalization
DisconnectedUnsaved ==
    /\ creq.pc = "stream"
    /\ creq.chunks < MaxChunks
    /\ closes' = closes + 1
    /\ events' = Append(events, [done |-> TRUE])
    /\ creq' = [creq EXCEPT !.pc = "done", !.disconnected = TRUE]
    /\ UNCHANGED saved
    /\ UNCHANGED <<scopevars, runvars, pipevars, provvars>>
\* a chunk arrives and fastapi_request.is_disconnected() is true: the chunk
\* is dropped, stream.aclose(), return; the finally block closes the stream
\* again and finalizes
Disconnected ==
    /\ creq.pc = "stream"
    /\ creq.chunks < MaxChunks
    /\ Finally("done", 2)
    /\ UNCHANGED <<scopevars, runvars, pipevars, provvars>>

\* (mutant) the generator ends without its last event
StreamEndsSilently ==
    /\ creq.pc = "stream"
    /\ creq.rest = <<>>
    /\ closes' = closes + 1
    /\ saved' = Append(saved, FinalContent(creq.fn, creq.full_chunks,
                                           creq.combined_mapping))
    /\ creq' = [creq EXCEPT !.pc = "done"]
    /\ UNCHANGED events
    /\ UNCHANGED <<scopevars, runvars, pipevars, provvars>>
\* the stream is exhausted: the finally block
StreamEnds ==
    /\ creq.pc = "stream"
    /\ creq.rest = <<>>
    /\ Finally("done", 1)
    /\ UNCHANGED <<scopevars, runvars, pipevars, provvars>>

\* the stream raises (or the chunk has no choices): the finally block runs,
\* then the exception leaves the generator
StreamRaises ==
    /\ creq.pc = "stream"
    /\ Finally("raised", 1)
    /\ UNCHANGED <<scopevars, runvars, pipevars, provvars>>

NextChat ==
    \/ \E fn \in ChatFns, contents \in Chats, output \in ChatOutputs :
         ChatRequest(fn, contents, output)
    \/ ChatGenerateReturns
    \/ \E n \in 0..Len(creq.rest) : StreamChunk(n)
    \/ Disconnected
    \/ StreamEnds
    \/ StreamRaises

Init == InitScope /\ InitRun /\ InitPipe /\ InitProv /\ InitChat

Next ==
    \/ \E q \in Queries, h \in Histories : ProcessRequest(q, h)
    \/ Generate
    \/ \E response \in Responses : GenerateReturns(response)
    \/ \E i \in 1..Len(tasks) : TaskStart(i)
    \/ \E i \in 1..Len(tasks), outcome \in ToolOutcomes : TaskFinish(i, outcome)
    \/ Gather
    \/ GiveUp

Spec == Init /\ [][Next]_vars

NextPII ==
    \/ \E t \in Texts(MaxFrags - scope_frags) : MaskCall(t)
    \/ UnmaskCall
    \/ \E n \in 1..Len(scope_mapping) : UnmaskBare(n)

SpecPII == Init /\ [][NextPII]_vars

SpecPipe == Init /\ [][NextPipe]_vars

SpecProv == Init /\ [][NextProv]_vars

SpecChat == Init /\ [][NextChat]_vars

(***************************************************************************)
(* Properties of the tokenizer                                             *)
(***************************************************************************)
TypeNames == {PATTERNS[i].name : i \in 1..Len(PATTERNS)}

\* the original values replaced so far in the scope
Originals == {scope_log[i].original : i \in 1..Len(scope_log)}

\* the tokens of the replace_match calls of rule T
TokensOf(T) ==
    {scope_log[i].token : i \in {j \in 1..Len(scope_log) : scope_log[j].type = T}}

\* the number, in first-seen order, of the value replaced by call i of log
Rank(log, i) ==
    LET first == CHOOSE j \in 1..i :
                   /\ log[j].original = log[i].original
                   /\ \A h \in 1..(j - 1) : log[h].original # log[i].original
    IN Cardinality({log[j].original : j \in 1..first})

\* every replace_match call of the scope was made by rule T
OneType(T) ==
    scope_log # <<>> /\ \A i \in 1..Len(scope_log) : scope_log[i].type = T

IsPrefix(a, b) == Len(a) <= Len(b) /\ SubSeq(b, 1, Len(a)) = a

\* C5: a text masked from the empty mapping and unmasked with the mapping
\* that call returned is the text again.
RoundTrip ==
    (op = "unmask" /\ scope_calls = 1) => last_unmasked = last_text

\* C7: in one scope every replaced occurrence of the same original value is
\* replaced by the same token, and the mapping has exactly one entry whose
\* value is that original.
DedupOneToken ==
    /\ \A i, j \in 1..Len(scope_log) :
         scope_log[i].original = scope_log[j].original
           => scope_log[i].token = scope_log[j].token
    /\ \A i \in 1..Len(scope_log) :
         Cardinality({n \in 1..Len(scope_mapping) :
                        scope_mapping[n].v = scope_log[i].original}) = 1

\* the second call of a scope replaced a value that an earlier call had
\* replaced, and allocated nothing
DedupWitness ==
    /\ scope_calls = 2
    /\ scope_prev = scope_mapping
    /\ last_masked # last_text
    /\ Len(scope_log) > Cardinality(Originals)

\* C8: when the values masked in a scope are k distinct values of one type,
\* the n-th value in first-seen order is replaced by {{TYPE_n}}, and the
\* tokens of the mapping are {{TYPE_1}} .. {{TYPE_k}}.
TokenNumbering ==
    \A T \in TypeNames :
      OneType(T) =>
        /\ \A i \in 1..Len(scope_log) :
             scope_log[i].token = Token(T, Rank(scope_log, i))
        /\ {scope_mapping[n].k : n \in 1..Len(scope_mapping)}
             = {Token(T, n) : n \in 1..Cardinality(Originals)}

\* three distinct emails have been masked, and nothing else
NumberingWitness == OneType(TypeEMAIL) /\ Cardinality(Originals) = 3

\* C9: after any sequence of mask calls on one mapping, the tokens of each
\* type are numbered 1..k without gaps, whatever tokens of other types the
\* mapping holds.
NumberedWithoutGaps ==
    \A T \in TypeNames :
      TokensOf(T) = {Token(T, n) : n \in 1..Cardinality(TokensOf(T))}

\* C10: the keys of the mapping are distinct, a mask call leaves the entries
\* the mapping had as they were and in place, and every token a call
\* returned still maps to the value it replaced.
MappingOnlyGrows ==
    /\ IsPrefix(scope_prev, scope_mapping)
    /\ \A i, j \in 1..Len(scope_mapping) :
         scope_mapping[i].k = scope_mapping[j].k => i = j
    /\ \A i \in 1..Len(scope_log) :
         \E n \in 1..Len(scope_mapping) :
           /\ scope_mapping[n].k = scope_log[i].token
           /\ scope_mapping[n].v = scope_log[i].original

\* a later call of a scope added entries to a mapping that had some
GrowthWitness ==
    /\ scope_calls >= 2
    /\ Len(scope_prev) >= 1
    /\ Len(scope_mapping) > Len(scope_prev)

\* C11: a text that is a token of the mapping in its bare form is unmasked
\* to the original value of that token, which is also what the braced token
\* is unmasked to.
BareRestored ==
    op = "unmask_bare" =>
      \A n \in 1..Len(scope_mapping) :
        BareToken(scope_mapping[n].k) = last_bare =>
          /\ last_unmasked = scope_mapping[n].v
          /\ last_unmasked = unmask(scope_mapping[n].k, scope_mapping)

(***************************************************************************)
(* Properties of process_request                                           *)
(***************************************************************************)
LogOriginals(r) == {r.log[i].original : i \in 1..Len(r.log)}

\* the values the rules of PIIService detect in text t
Detected(t) == LogOriginals(mask(t, <<>>))

\* the texts of the run: the history messages of the window, then the query
RunTexts ==
    [i \in 1..Len(LastOf(history, HistoryWindow)) |->
       LastOf(history, HistoryWindow)[i].content] \o <<query>>

RunPII == UNION {Detected(RunTexts[i]) : i \in 1..Len(RunTexts)}

\* the mapping after masking texts, one after the other, into mapping
RECURSIVE MaskAll(_, _)
MaskAll(texts, mapping) ==
    IF texts = <<>> THEN mapping
    ELSE MaskAll(Tail(texts), mask(Head(texts), mapping).mapping)

\* the mapping of the run once the history window and the query are masked
RunMapping == MaskAll(RunTexts, <<>>)

\* the values detected in the texts the tools return
ToolPII ==
    UNION {Detected(outcome.text) :
             outcome \in {o \in ToolOutcomes : ~o.raises}}

RECURSIVE StringLeaves(_)
StringLeaves(v) ==
    CASE v.t = "str" -> {v.s}
      [] v.t = "obj" -> UNION {StringLeaves(v.o[i].v) : i \in 1..Len(v.o)}
      [] v.t = "arr" -> UNION {StringLeaves(v.a[i]) : i \in 1..Len(v.a)}
      [] OTHER -> {}

\* C1: no message of a list passed to provider.generate holds, in clear, a
\* PII value detected in the query or in the history of the run.
PlaintextNeverSent ==
    \A i \in 1..Len(sent) :
      "content" \in DOMAIN sent[i] =>
        \A original \in RunPII : ~Contains(sent[i].content, original)

\* C2: no tool-result message of the message list holds, in clear, a PII
\* value detected in the text a tool returned.
ToolResultsMasked ==
    \A i \in 1..Len(messages) :
      messages[i].role = "tool" =>
        \A original \in ToolPII : ~Contains(messages[i].content, original)

\* C3: the final answer process_request returns holds no token for which the
\* mapping of the run has an entry.
AnswerUnmasked ==
    pc = "done" =>
      \A n \in 1..Len(RunMapping) : ~Contains(result, RunMapping[n].k)

\* C4: no string leaf of the arguments a tool is invoked with holds a token
\* for which the mapping of the run has an entry.
ToolReceivesUnmasked ==
    \A i \in 1..Len(invocations) :
      \A j \in 1..Len(invocations[i].args) :
        \A leaf \in StringLeaves(invocations[i].args[j]) :
          \A n \in 1..Len(RunMapping) : ~Contains(leaf, RunMapping[n].k)

\* C6: a run makes at most SECRETARY_MAX_TURNS provider.generate calls, and
\* it returns the fallback message after exactly that many.
CallsWithinMaxTurns ==
    /\ generate_calls <= SECRETARY_MAX_TURNS
    /\ (pc = "done" /\ result = MaxStepsMessage)
         => generate_calls = SECRETARY_MAX_TURNS

(***************************************************************************)
(* Properties of ChatPipeline.run                                          *)
(***************************************************************************)
\* the texts the mask calls of run r have masked so far
OwnTexts(r) ==
    [i \in 1..Len(prun[r].masked) |-> prun[r].history[i].content]
      \o (IF prun[r].pc \in {"generate", "unmask"}
          THEN <<prun[r].content>> ELSE <<>>)

\* C12: from its reset to the end of its unmask call, the mapping of the
\* middleware is the mapping of the run: what the mask calls of that run,
\* and no other, have built from the empty mapping.
MappingPerRun ==
    \A r \in PipeRuns :
      prun[r].pc \notin {"idle", "persist", "done"} =>
        pm_dicts[pm_ref] = MaskAll(OwnTexts(r), <<>>)


(***************************************************************************)
(* Properties of OpenAIProvider and ModelRegistry                          *)
(***************************************************************************)
\* the requests of the responses variant
Chained == {k \in 1..Len(requests) : "input" \in DOMAIN requests[k].req}

\* the number of messages a request of the responses variant carries
Carried(req) ==
    Len(req.input) + (IF "instructions" \in DOMAIN req THEN 1 ELSE 0)

\* C13: in the responses variant the first request of a run carries the
\* whole message list, and every later one carries only the tool results
\* made since the request before it, with previous_response_id set to the
\* id of the response to that request.
ChainedDelta ==
    \A k \in Chained :
      IF k = 1
      THEN Carried(requests[k].req) = Len(requests[k].messages)
      ELSE /\ requests[k].req.input =
                [i \in 1..Len(requests[k].fresh) |->
                   [type |-> "function_call_output",
                    call_id |-> requests[k].fresh[i].tool_call_id,
                    output |-> requests[k].fresh[i].content]]
           /\ "instructions" \notin DOMAIN requests[k].req
           /\ "previous_response_id" \in DOMAIN requests[k].req
           /\ requests[k].req.previous_response_id
                = outcomes[k - 1].response.id

\* C14: a request the provider rejects for its temperature is sent once
\* more without the temperature, and that is the only retry: after any
\* other error the call has raised that error and sent nothing more.
RetriedWithoutTemperature ==
    \A k \in 1..Len(outcomes) :
      outcomes[k].raises =>
        IF outcomes[k].error = TemperatureUnsupported
           /\ (k = 1 \/ ~outcomes[k - 1].raises)
        THEN /\ Len(requests) > k
             /\ "temperature" \notin DOMAIN requests[k + 1].req
        ELSE /\ Len(requests) = k
             /\ gen.pc = "raised"
             /\ gen.error = outcomes[k].error

\* C15: a request of generate or stream_generate, in either variant,
\* carries a temperature only if the caller gave one and the descriptor of
\* the model supports it; a call is not stopped by a temperature that is
\* dropped: its request is sent.
TemperatureOnlyIfSupported ==
    /\ \A k \in 1..Len(requests) :
         "temperature" \in DOMAIN requests[k].req =>
           /\ "temperature" \in DOMAIN gen.options
           /\ requests[k].req.temperature = gen.options.temperature
           /\ get_capabilities(requests[k].req.model).supports_temperature
    /\ gen.pc # "idle" => Len(requests) >= 1

TemperatureDropped ==
    /\ gen.pc = "returned"
    /\ "temperature" \in DOMAIN gen.options
    /\ ~get_capabilities(ModelOf(gen.options)).supports_temperature
    /\ \A k \in 1..Len(requests) :
         "temperature" \notin DOMAIN requests[k].req

\* the function calls of a response in its order, each as its correlation
\* id, its name and its arguments
FunctionCallsOf(response) ==
    IF "output" \in DOMAIN response
    THEN LET calls == SelectSeq(response.output,
                                LAMBDA item : item.type = "function_call")
         IN [i \in 1..Len(calls) |->
               <<calls[i].call_id, calls[i].name, calls[i].arguments>>]
    ELSE LET calls == SelectSeq(response.tool_calls,
                                LAMBDA tc : /\ tc.form # "None"
                                            /\ tc.value.type = "function")
         IN [i \in 1..Len(calls) |->
               <<calls[i].value.id, calls[i].value.function.name,
                 calls[i].value.function.arguments>>]

\* C16: in both variants the tool calls generate returns have one shape,
\* and they are the function calls of the response, one for one and in its
\* order, with the correlation id, the name and the arguments of each; the
\* other items of the response give no tool call.
ToolCallsNormalized ==
    gen.pc = "returned" /\ gen.fn = "generate" =>
      LET calls == FunctionCallsOf(outcomes[Len(outcomes)].response)
          returned == gen.result.tool_calls
      IN /\ Len(returned) = Len(calls)
         /\ \A i \in 1..Len(returned) :
              /\ DOMAIN returned[i] = {"id", "type", "function"}
              /\ DOMAIN returned[i].function = {"name", "arguments"}
              /\ <<returned[i].id, returned[i].function.name,
                    returned[i].function.arguments>> = calls[i]

ToolCallsReturned ==
    /\ gen.pc = "returned"
    /\ gen.fn = "generate"
    /\ "output" \in DOMAIN outcomes[Len(outcomes)].response
    /\ Len(outcomes[Len(outcomes)].response.output) = 4
    /\ Len(gen.result.tool_calls) = 2

\* C17: get_capabilities gives the entry of the table for an id that is a
\* key; otherwise the descriptor of the family whose prefix the id starts
\* with; otherwise, the empty id included, the default descriptor, which
\* supports temperature, not tools, is of the chat_completions variant and
\* has no ceiling.
CapabilitiesResolved ==
    lookup # <<>> =>
      IF \E n \in 1..Len(capabilities) : capabilities[n].k = lookup.model_id
      THEN \E n \in 1..Len(capabilities) :
             /\ capabilities[n].k = lookup.model_id
             /\ lookup.caps = capabilities[n].v
      ELSE IF StartsWith(lookup.model_id, ModelId.gpt_5)
      THEN /\ lookup.caps.api_type = "responses"
           /\ lookup.caps.supports_tools
           /\ lookup.caps.supports_temperature
      ELSE IF StartsWith(lookup.model_id, ModelId.o1)
      THEN /\ lookup.caps.api_type = "chat_completions"
           /\ ~lookup.caps.supports_tools
           /\ ~lookup.caps.supports_temperature
      ELSE /\ lookup.caps.supports_temperature
           /\ ~lookup.caps.supports_tools
           /\ lookup.caps.api_type = "chat_completions"
           /\ "max_output_tokens" \notin DOMAIN lookup.caps

FamilyResolved ==
    /\ lookup # <<>>
    /\ lookup.model_id = ModelId.gpt_5_pro
    /\ lookup.caps.api_type = "responses"

(***************************************************************************)
(* Properties of the tool calls of process_request                         *)
(***************************************************************************)
\* the assistant messages with tool calls whose turn is over: its tasks
\* are not being gathered
TurnsOver ==
    {k \in 1..Len(messages) :
       /\ messages[k].role = "assistant"
       /\ "tool_calls" \in DOMAIN messages[k]
       /\ ~(pc = "gather" /\ k = Len(messages))}

ErrorColon == <<"E", "r", "r", "o", "r", ":">>

\* C18: a tool call whose arguments are not JSON does not fail the run, and
\* every tool call of its turn, that one included, is executed and gets a
\* tool message with its call id.
InvalidArgumentsAbsorbed ==
    /\ pc # "raised"
    /\ \A k \in TurnsOver :
         \A i \in 1..Len(messages[k].tool_calls) :
           /\ Len(messages) >= k + i
           /\ messages[k + i].role = "tool"
           /\ messages[k + i].tool_call_id = messages[k].tool_calls[i].id

\* C19: a tool call with a name that is not recognized gets a tool message
\* with its call id and an error string as its content; the run goes on,
\* and the next call of the model is given that message.
UnknownToolReported ==
    \A k \in TurnsOver :
      \A i \in 1..Len(messages[k].tool_calls) :
        ~IsDispatched(messages[k].tool_calls[i].name) =>
          /\ Len(messages) >= k + i
          /\ messages[k + i].role = "tool"
          /\ messages[k + i].tool_call_id = messages[k].tool_calls[i].id
          /\ StartsWith(messages[k + i].content, ErrorColon)
          /\ Len(sent) > k => sent[k + i] = messages[k + i]

\* C20: the result of a task that failed, for an unknown tool or for an
\* exception of the tool, is a string that starts with "Error:", and it is
\* given to the model as the content of a tool message.
FailuresStartWithError ==
    /\ \A i \in 1..Len(tasks) :
         (/\ tasks[i].state = "done"
          /\ \A o \in ToolOutcomes : o.raises \/ o.text # tasks[i].res)
           => StartsWith(tasks[i].res, ErrorColon)
    /\ \A k \in 1..Len(messages) :
         (/\ messages[k].role = "tool"
          /\ \A o \in ToolOutcomes : o.raises \/ o.text # messages[k].content)
           => StartsWith(messages[k].content, ErrorColon)

\* how many of the tool calls in calls are dispatched to the tool layer
RECURSIVE DispatchedIn(_)
DispatchedIn(calls) ==
    IF calls = <<>> THEN 0
    ELSE (IF IsDispatched(Head(calls).name) THEN 1 ELSE 0)
           + DispatchedIn(Tail(calls))

RECURSIVE DispatchedUpTo(_)
DispatchedUpTo(k) ==
    IF k = 0 THEN 0
    ELSE (IF k \in TurnsOver THEN DispatchedIn(messages[k].tool_calls) ELSE 0)
           + DispatchedUpTo(k - 1)

\* C21: in a turn every tool call has one task, started once, and its tool
\* is invoked once; the tasks of a turn are in progress together; every
\* call gets one tool message with its own call id, in whatever order the
\* tools end; and the model is not called again before all are done.
FanOutFanIn ==
    /\ \A k \in TurnsOver :
         \A i \in 1..Len(messages[k].tool_calls) :
           /\ Len(messages) >= k + i
           /\ messages[k + i].role = "tool"
           /\ messages[k + i].tool_call_id = messages[k].tool_calls[i].id
    /\ pc = "gather" =>
         /\ Len(tasks) = Len(messages[Len(messages)].tool_calls)
         /\ \A i \in 1..Len(tasks) :
              tasks[i].cid = messages[Len(messages)].tool_calls[i].id
    /\ pc # "gather" => tasks = <<>>
    /\ Len(invocations) =
         DispatchedUpTo(Len(messages))
           + Cardinality({i \in 1..Len(tasks) :
                            /\ tasks[i].state # "created"
                            /\ IsDispatched(tasks[i].fname)})

\* C24: a call of get_email with a message_id is dispatched to get_email of
\* the tool layer once, with the account label "work" and that message_id,
\* and the run then returns the content of the next response without tool
\* calls.
GetEmailDispatched ==
    /\ \A k \in TurnsOver :
         \A i \in 1..Len(messages[k].tool_calls) :
           (/\ messages[k].tool_calls[i].name = ToolName.get_email
            /\ k < Len(messages))
             =>
             \E n \in 1..Len(invocations) :
               /\ invocations[n].name = ToolName.get_email
               /\ invocations[n].args =
                    <<JStr(DefaultLabel),
                      Get(messages[k].tool_calls[i].arguments.value,
                          "message_id", None)>>
    /\ \A n \in 1..Len(invocations) :
         invocations[n].args[1] = JStr(DefaultLabel)
    /\ (/\ pc = "done"
        /\ messages[Len(messages)].role = "assistant"
        /\ "content" \in DOMAIN messages[Len(messages)])
         => result = messages[Len(messages)].content

\* C26: after mask no original value in the mapping contains a token: a
\* later rule has not matched text inside, or across, a token that an
\* earlier rule put in.
NoTokenInOriginals ==
    op = "mask" =>
      \A n \in 1..Len(scope_mapping), m \in 1..Len(scope_mapping) :
        ~Contains(scope_mapping[n].v, scope_mapping[m].k)

(***************************************************************************)
(* The mapping of a chat service request                                   *)
(***************************************************************************)
\* the messages a chat service request masks
ContextOf(contents) == LastOf(contents, ContextWindow)

\* C25: in send_message and send_message_stream the messages of one request
\* are masked into one shared mapping: the same value in different messages
\* gets the same token, two different values never get the same token, and
\* every token of the messages sent to the provider maps, in the mapping
\* used to unmask the response, to the value it replaced (so each masked
\* message unmasks to its content).
OneSharedMapping ==
    (creq.fn \in {"send_message", "send_message_stream"} /\ creq.pc # "idle") =>
      /\ Len(creq.masked) = Len(ContextOf(creq.contents))
      /\ \A i, j \in 1..Len(creq.masked) :
           (creq.masked[i] = creq.masked[j])
             <=> (ContextOf(creq.contents)[i] = ContextOf(creq.contents)[j])
      /\ \A i \in 1..Len(creq.masked) :
           unmask(creq.masked[i], creq.combined_mapping)
             = ContextOf(creq.contents)[i]

(***************************************************************************)
(* The event stream of run_stream and send_message_stream                  *)
(***************************************************************************)
StreamFns == {"send_message_stream", "run_stream"}

IsDone(event) == "done" \in DOMAIN event

\* the generator has returned or raised
StreamOver == creq.fn \in StreamFns /\ creq.pc \in {"done", "raised"}

\* the texts of the delta events, joined
RECURSIVE DeltaText(_)
DeltaText(evs) ==
    IF evs = <<>> THEN <<>>
    ELSE (IF IsDone(Head(evs)) THEN <<>> ELSE Head(evs).delta)
           \o DeltaText(Tail(evs))

\* C22: the events of run_stream / send_message_stream are zero or more
\* delta events followed by exactly one done event, which is the last event:
\* while the stream is read no done has been emitted, and once the generator
\* is over (normal end, detected disconnect, or an error of the stream) the
\* last event, and only the last, is done.
DeltasThenDone ==
    /\ \A i \in 1..Len(events) :
         IsDone(events[i]) <=> (i = Len(events) /\ StreamOver)
    /\ StreamOver => events # <<>>
    /\ creq.fn \notin StreamFns => events = <<>>

\* a disconnect was detected after a delta had been emitted, and the stream
\* has ended with done
DoneAfterDisconnect ==
    /\ creq.disconnected
    /\ Len(events) >= 2
    /\ IsDone(events[Len(events)])

\* C23: when the caller is found disconnected while streaming, no further
\* delta is emitted (one delta per chunk kept, none for the chunk in hand),
\* the provider stream is closed, and the finalization still runs: exactly
\* one assistant message is persisted, the unmasked text received so far or
\* the fallback text when that is blank; the same holds on normal
\* completion, and nothing is persisted before the stream is over.
FinalizedOnce ==
    /\ creq.pc = "stream" => (saved = <<>> /\ closes = 0)
    /\ StreamOver =>
         /\ closes >= 1
         /\ creq.disconnected => closes = 2
         /\ Len(events) = Len(creq.full_chunks) + 1
         /\ Len(saved) = 1
         /\ saved[1] =
              IF IsBlank(unmask(Concat(creq.full_chunks),
                                creq.combined_mapping))
              THEN Fallback(creq.fn)
              ELSE unmask(Concat(creq.full_chunks), creq.combined_mapping)

\* a disconnect was detected with text received, and the run has persisted
\* its one message, which is not the fallback
SavedAfterDisconnect ==
    /\ creq.disconnected
    /\ creq.full_chunks # <<>>
    /\ Len(saved) = 1
    /\ saved[1] # Fallback(creq.fn)

\* C30: for every way the provider splits its output into chunks, the
\* delta texts of a stream that is over, joined, are the unmasked
\* full response that is persisted (when that is not the fallback text); a
\* token split across two chunks is not emitted as a token.
DeltasJoinToSaved ==
    (StreamOver /\ saved[1] # Fallback(creq.fn)) =>
      DeltaText(events) = saved[1]

(***************************************************************************)
(* The message list of a pipeline run                                      *)
(***************************************************************************)
\* the user messages of h with this content
UserCount(h, content) ==
    Cardinality({i \in 1..Len(h) :
                   h[i].role = "user" /\ h[i].content = content})

\* C27: the list a pipeline run sends to the provider is one system
\* message, the masked history (one message per history message, with its
\* role), and the masked new user message; and the new user message occurs
\* once in it: the history that was loaded does not hold the message the
\* run has just saved, so it holds fewer user messages with the content of
\* the run than the chat does.
NewMessageOnce ==
    \A r \in PipeRuns :
      prun[r].pc = "generate" =>
        /\ Len(prun[r].messages) = Len(prun[r].history) + 2
        /\ prun[r].messages[1] = [role |-> "system", content |-> BasePrompt]
        /\ \A i \in 1..Len(prun[r].history) :
             prun[r].messages[i + 1].role = prun[r].history[i].role
        /\ prun[r].messages[Len(prun[r].messages)].role = "user"
        /\ UserCount(prun[r].history, prun[r].content)
             < UserCount(transcript, prun[r].content)

\* the function_call_output items of a request input, and the tool
\* messages of a message list, in their order
ToolOutputsOf(input_items) ==
    SelectSeq(input_items,
              LAMBDA item : /\ "type" \in DOMAIN item
                            /\ item.type = "function_call_output")

ToolMessagesOf(msgs) == SelectSeq(msgs, LAMBDA m : m.role = "tool")

LoopCalls == {k \in 1..Len(requests) : requests[k].fresh # <<>>}

\* C29: with a tool_runner the tool loop of generate is bounded, even when
\* every response asks for another tool call: the calls generate makes to
\* itself stop before the requests this model allows are used up.
ToolLoopBounded ==
    "tool_runner" \in DOMAIN gen.options =>
      Cardinality(LoopCalls) < MaxRequests - 1
====
